---- MODULE Spec2Model ----
(***************************************************************************)
(* Fault-tolerant multi-source execution of the research mentor:           *)
(*   - FallbackExecutor (core/fallback.py): circuit breaker, retries with  *)
(*     jittered exponential backoff, candidate fallback;                   *)
(*   - execute_with_policy / try_tool_with_retries                         *)
(*     (core/execution_engine.py) driven by the fallback policy object;    *)
(*   - ResponseCache (agent-mentor-guidelines-test/src/cache.py);          *)
(*   - EvidenceCollector.collect_structured_evidence and                   *)
(*     collect_curated_evidence (tools/guidelines/evidence_collector.py);  *)
(*   - GuidelinesV2Executor.run (tools/guidelines/executors) and the       *)
(*     client walking its pages; evidence ids; the citation aggregator;    *)
(*   - GuidelinesTool.execute (tools/guidelines/tool.py) over its cache;   *)
(*   - ResearchMentorAgent.get_response                                    *)
(*     (agent-mentor-guidelines-test/src/agent/mentor_agent.py);           *)
(*   - guidelines_tool_fn (runtime/tool_impls.py, runtime/guidelines_tool.py). *)
(* Each component has its own variables and its own specification; the     *)
(* variables of the other components stay at their initial value.          *)
(***************************************************************************)
EXTENDS Integers, Sequences, FiniteSets, TLC

VARIABLES
    now,        \* time.time() of the executor's process, in seconds
    api,        \* entry point the caller drives: "fallback" or "policy"
    policy,     \* FallbackExecutor.policy configuration (immutable fields)
    health,     \* FallbackExecutor.policy.health_tracking
    fb,         \* the running execute_with_fallback call
    fbCalls,    \* observer: execute() invocations per source in this call
    requests,   \* requests issued so far
    slept,      \* observer: <<retry, delay_ms>> of every time.sleep in this call
    polHealth,  \* health map of the policy object execute_with_policy is given
    eng,        \* the running execute_with_policy call
    engTrace,   \* observer: <<source, outcome>> of every execute() in this call
    cacheNow,   \* datetime.now() of the cache's process, in hours
    caching,    \* Config.ENABLE_CACHING
    cache_data, \* ResponseCache.cache_data
    cache_file, \* the content of responses.json
    lastSet,    \* observer: per key, the response and the time of the latest set
    lastGet,    \* observer: the get that has just returned
    colNow,     \* time.time() of the collector's process, in tenths of a second
    colBudget,  \* config.GLOBAL_RETRIEVAL_BUDGET_SECS, in tenths of a second
    col,        \* the running collect_structured_evidence call
    colQueried, \* observer: the queries passed to search_tool.run in this call
    colAccepted, \* observer: the items appended to items_for_domain in this call
    v2Cfg,      \* GuidelinesV2Executor: whether a search tool and a cache are set
    v2,         \* the running GuidelinesV2Executor.run call
    v2CacheSet, \* the last cache.set(cache_key, result) made by run
    pager,      \* the client walking the pages of a response
    procSeed,   \* the hash seed of each interpreter process
    ids,         \* the evidence id each process last assigned, with the key it was for
    held, \* CitationAggregator: the citations held, in the order admitted
    aggReturned, \* observer: what the last add_citations returned, and what it was given
    toolStore, \* GuidelinesTool._cache: the entries held, per cache key
    toolOrigin, \* observer: per key, the request and the value of the set that made the entry
    toolLast, \* observer: the execute call that has just returned and the queries it ran
    agentCache, \* ResearchMentorAgent.cache.cache_data
    agentFile, \* the content of the responses.json the agent's cache writes
    agentLast, \* observer: the get_response call that has just ended
    rec, \* the ToolHealth record of one source, shared by the writers
    writers, \* per thread, where it stands in _record_success or _record_failure and the value it loaded
    recorded, \* observer: the outcomes whose recording began, in order
    sharers, \* per ResponseCache user of the shared store, its cache_data and where it stands in set
    sharedFile, \* the content of the responses.json the users share
    sharedSets, \* observer: the key and value of every set begun, in order
    failed, \* the failed calls made so far - what was raised and the dict returned
    guideLast, \* the last call of guidelines_tool_fn - which function, its arguments, what the orchestrator and the offline loader did, the text returned
    o3, \* the _O3SearchTool.execute call under way, and what the last one returned
    fetch \* the _fetch_with_retry frame of the arxiv_search under way

fbVars == <<health, fb, fbCalls, slept>>
engVars == <<polHealth, eng, engTrace>>
execVars == <<now, api, policy, requests, fbVars, engVars>>
cacheVars == <<cacheNow, caching, cache_data, cache_file, lastSet, lastGet>>
colVars == <<colNow, colBudget, col, colQueried, colAccepted>>
v2Vars == <<v2Cfg, v2, v2CacheSet, pager>>
idVars == <<procSeed, ids>>
aggVars == <<held, aggReturned>>
toolVars == <<toolStore, toolOrigin, toolLast>>
agentVars == <<agentCache, agentFile, agentLast>>
recVars == <<rec, writers, recorded>>
sharedVars == <<sharers, sharedFile, sharedSets>>
failVars == <<failed>>
guideVars == <<guideLast>>
o3Vars == <<o3, fetch>>

\* what the executor's steps leave alone
outsideExec == <<cacheVars, colVars, v2Vars, idVars, aggVars, toolVars, agentVars, recVars, sharedVars, failVars, guideVars, o3Vars>>
\* what the cache's steps leave alone
outsideCache == <<execVars, colVars, v2Vars, idVars, aggVars, toolVars, agentVars, recVars, sharedVars, failVars, guideVars, o3Vars>>
\* what the collector's steps leave alone
outsideCol == <<execVars, cacheVars, v2Vars, idVars, aggVars, toolVars, agentVars, recVars, sharedVars, failVars, guideVars, o3Vars>>
\* what the V2 executor's steps leave alone, the collector apart
outsideV2 == <<execVars, cacheVars, idVars, aggVars, toolVars, agentVars, recVars, sharedVars, failVars, guideVars, o3Vars>>
\* what the assignment of evidence ids leaves alone
outsideIds == <<execVars, cacheVars, colVars, v2Vars, aggVars, toolVars, agentVars, recVars, sharedVars, failVars, guideVars, o3Vars>>
\* what the citation aggregator's steps leave alone
outsideAgg == <<execVars, cacheVars, colVars, v2Vars, idVars, toolVars, agentVars, recVars, sharedVars, failVars, guideVars, o3Vars>>
\* what the legacy guidelines tool's steps leave alone
outsideTool == <<execVars, cacheVars, colVars, v2Vars, idVars, aggVars, agentVars, recVars, sharedVars, failVars, guideVars, o3Vars>>
\* what the mentor agent's steps leave alone
outsideAgent == <<execVars, cacheVars, colVars, v2Vars, idVars, aggVars, toolVars, recVars, sharedVars, failVars, guideVars, o3Vars>>
\* what the recording threads leave alone
outsideRec == <<execVars, cacheVars, colVars, v2Vars, idVars, aggVars, toolVars, agentVars, sharedVars, failVars, guideVars, o3Vars>>
\* what the users of the shared store leave alone
outsideShared == <<execVars, cacheVars, colVars, v2Vars, idVars, aggVars, toolVars, agentVars, recVars, failVars, guideVars, o3Vars>>
\* what the reporting of a failed call leaves alone
outsideFail == <<execVars, cacheVars, colVars, v2Vars, idVars, aggVars, toolVars, agentVars, recVars, sharedVars, guideVars, o3Vars>>
\* what a call of guidelines_tool_fn leaves alone
outsideGuide == <<execVars, cacheVars, colVars, v2Vars, idVars, aggVars, toolVars, agentVars, recVars, sharedVars, failVars, o3Vars>>
\* what an _O3SearchTool.execute call and its requests leave alone
outsideO3 == <<execVars, cacheVars, colVars, v2Vars, idVars, aggVars, toolVars, agentVars, recVars, sharedVars, failVars, guideVars>>

vars == <<execVars, cacheVars, colVars, v2Vars, idVars, aggVars, toolVars, agentVars, recVars, sharedVars, failVars, guideVars, o3Vars>>

-----------------------------------------------------------------------------
(* Bounds of the model *)

\* seconds the clock advances in one Tick
TickS == 30
\* the clock stops advancing here
MaxTime == 90
\* requests the caller issues in one run
MaxRequests == 3
\* longest candidate list
MaxCands == 2
\* hours the cache's clock advances in one CacheTick
CacheTickH == 12
\* the cache's clock stops advancing here
MaxCacheTime == 36
\* tenths of a second the collector's clock advances in one ColTick
ColTickDs == 30
\* the collector's clock stops advancing here
MaxColTime == 90
\* largest max_per_source the caller passes
MaxPerSource == 2
\* config.RESULT_CAP
ResultCap == 3
\* largest page_size a client asks for
MaxPageSize == 2
\* largest hash seed of an interpreter process
MaxHashSeed == 2
\* requests issued while the health record of one source is followed
MaxHealthRequests == 6
\* outcomes recorded by the concurrent writers
MaxRecorded == 4
\* sets made by the users of the shared store
MaxSharedSets == 3
\* failed calls whose returned dicts are compared
MaxFailed == 2

(* Program constants *)

\* FallbackPolicy defaults
DefaultMaxRetries == 2
DefaultBaseBackoffMs == 1000
DefaultMaxBackoffMs == 10000
CircuitFailureThreshold == 3
CircuitRecoveryTimeS == 60
\* jitter_factor = 0.1, in percent
DefaultJitterPct == 10

\* Optional[float] = None
NoTime == 0 - 1

\* ToolState
HEALTHY == "healthy"
DEGRADED == "degraded"
CIRCUIT_OPEN == "circuit_open"

-----------------------------------------------------------------------------
(* Sources *)

\* names with an executable tool registered in `tools`
Tools == {"a", "b"}
\* names a candidate list may hold; "m" has no executable tool
Names == Tools \cup {"m"}

ScoreOf(n) == CASE n = "a" -> 9 [] n = "b" -> 5 [] OTHER -> 1

\* the candidate lists the caller passes: empty, one source, a source and its
\* fallback, a source listed twice, a name without an executable tool
NameLists == {<<>>, <<"a">>, <<"a", "b">>, <<"a", "a">>, <<"m", "a">>}

\* candidates: List[Tuple[str, float]]
CandidateLists ==
    {[k \in 1..Len(s) |-> [name |-> s[k], score |-> ScoreOf(s[k])]] :
        s \in {l \in NameLists : Len(l) <= MaxCands}}

\* what tool.execute does: returns, or raises an Exception
Outcomes == {"ok", "raise"}

-----------------------------------------------------------------------------
(* FallbackPolicy / ToolHealth *)

DefaultPolicy ==
    [max_retries |-> DefaultMaxRetries,
     base_backoff_ms |-> DefaultBaseBackoffMs,
     max_backoff_ms |-> DefaultMaxBackoffMs,
     circuit_failure_threshold |-> CircuitFailureThreshold,
     circuit_recovery_time_s |-> CircuitRecoveryTimeS,
     jitter_pct |-> DefaultJitterPct]

\* health_tracking.get(name) is None
NoHealth == [tracked |-> FALSE]

\* ToolHealth(name)
NewHealth ==
    [tracked |-> TRUE,
     failure_count |-> 0,
     success_count |-> 0,
     last_failure_time |-> NoTime,
     last_success_time |-> NoTime,
     state |-> HEALTHY,
     consecutive_failures |-> 0,
     circuit_open_until |-> NoTime]

\* health_tracking.setdefault(tool_name, ToolHealth(tool_name))
SetDefault(h, t) == IF h[t].tracked THEN h[t] ELSE NewHealth

\* truthiness of an Optional[float]
Truthy(x) == x # NoTime /\ x # 0

\* _is_circuit_open: the recovery time has passed
RecoveryElapsed_M(hr, t) == Truthy(hr.circuit_open_until) /\ t >= hr.last_failure_time
RecoveryElapsed(hr, t) == Truthy(hr.circuit_open_until) /\ t > hr.circuit_open_until

\* _is_circuit_open: the value returned
IsCircuitOpen(h, t, clock) ==
    /\ h[t].tracked
    /\ h[t].state = CIRCUIT_OPEN
    /\ ~RecoveryElapsed(h[t], clock)

\* _is_circuit_open: the health map it leaves
AfterCircuitCheck_M(h, t, clock) ==
    IF h[t].tracked /\ h[t].state = CIRCUIT_OPEN /\ RecoveryElapsed(h[t], clock)
    THEN [h EXCEPT ![t] = [@ EXCEPT !.circuit_open_until = NoTime]]
    ELSE h
AfterCircuitCheck(h, t, clock) ==
    IF h[t].tracked /\ h[t].state = CIRCUIT_OPEN /\ RecoveryElapsed(h[t], clock)
    THEN [h EXCEPT ![t] = [@ EXCEPT !.state = DEGRADED, !.circuit_open_until = NoTime]]
    ELSE h

\* _record_success
RecordSuccess_M(h, t, clock) ==
    LET h0 == SetDefault(h, t)
        h1 == [h0 EXCEPT !.success_count = @ + 1,
                         !.last_success_time = clock]
    IN  [h EXCEPT ![t] =
            IF h1.state = DEGRADED /\ h1.success_count % 3 = 0
            THEN [h1 EXCEPT !.state = HEALTHY]
            ELSE h1]
RecordSuccess_M2(h, t, clock) ==
    LET h0 == SetDefault(h, t)
        h1 == [h0 EXCEPT !.success_count = @ + 1,
                         !.consecutive_failures = 0,
                         !.last_success_time = clock]
    IN  [h EXCEPT ![t] =
            IF h1.state = DEGRADED
            THEN [h1 EXCEPT !.state = HEALTHY]
            ELSE h1]
RecordSuccess_M3(h, t, clock) ==
    LET h0 == SetDefault(h, t)
        h1 == [h0 EXCEPT !.success_count = @ + 1,
                         !.failure_count = @ + 1,
                         !.consecutive_failures = 0,
                         !.last_success_time = clock]
    IN  [h EXCEPT ![t] =
            IF h1.state = DEGRADED /\ h1.success_count % 3 = 0
            THEN [h1 EXCEPT !.state = HEALTHY]
            ELSE h1]
RecordSuccess(h, t, clock) ==
    LET h0 == SetDefault(h, t)
        h1 == [h0 EXCEPT !.success_count = @ + 1,
                         !.consecutive_failures = 0,
                         !.last_success_time = clock]
    IN  [h EXCEPT ![t] =
            IF h1.state = DEGRADED /\ h1.success_count % 3 = 0
            THEN [h1 EXCEPT !.state = HEALTHY]
            ELSE h1]

\* _record_failure
RecordFailure_M(h, t, clock) ==
    LET h0 == SetDefault(h, t)
        h1 == [h0 EXCEPT !.failure_count = @ + 1,
                         !.consecutive_failures = @ + 1,
                         !.last_failure_time = clock]
    IN  [h EXCEPT ![t] =
            IF h1.consecutive_failures > policy.circuit_failure_threshold
            THEN [h1 EXCEPT !.state = CIRCUIT_OPEN,
                            !.circuit_open_until = clock + policy.circuit_recovery_time_s]
            ELSE h1]
RecordFailure_M2(h, t, clock) ==
    LET h0 == SetDefault(h, t)
        h1 == [h0 EXCEPT !.failure_count = @ + 1,
                         !.consecutive_failures = IF h0.state = DEGRADED THEN 1 ELSE @ + 1,
                         !.last_failure_time = clock]
    IN  [h EXCEPT ![t] =
            IF h1.consecutive_failures >= policy.circuit_failure_threshold
            THEN [h1 EXCEPT !.state = CIRCUIT_OPEN,
                            !.circuit_open_until = clock + policy.circuit_recovery_time_s]
            ELSE h1]
RecordFailure(h, t, clock) ==
    LET h0 == SetDefault(h, t)
        h1 == [h0 EXCEPT !.failure_count = @ + 1,
                         !.consecutive_failures = @ + 1,
                         !.last_failure_time = clock]
    IN  [h EXCEPT ![t] =
            IF h1.consecutive_failures >= policy.circuit_failure_threshold
            THEN [h1 EXCEPT !.state = CIRCUIT_OPEN,
                            !.circuit_open_until = clock + policy.circuit_recovery_time_s]
            ELSE h1]

Max2(x, y) == IF x > y THEN x ELSE y
Min2(x, y) == IF x < y THEN x ELSE y

\* get_tool_health_summary; success_rate is the pair <<numerator, denominator>>
HealthSummary ==
    [t \in {n \in Names : health[n].tracked} |->
        [state |-> health[t].state,
         success_rate |-> <<health[t].success_count,
                            Max2(health[t].success_count + health[t].failure_count, 1)>>,
         consecutive_failures |-> health[t].consecutive_failures,
         last_failure |-> health[t].last_failure_time,
         last_success |-> health[t].last_success_time]]

-----------------------------------------------------------------------------
(* Backoff of _execute_with_retries *)

RECURSIVE Pow2(_)
Pow2(n) == IF n = 0 THEN 1 ELSE 2 * Pow2(n - 1)

\* backoff_ms = min(base_backoff_ms * 2 ** (retry - 1), max_backoff_ms)
BackoffMs_M(retry) == policy.base_backoff_ms * Pow2(retry - 1)
BackoffMs(retry) ==
    Min2(policy.base_backoff_ms * Pow2(retry - 1), policy.max_backoff_ms)

\* random.uniform(-jitter_factor, jitter_factor), in percent: both ends and the middle
JitterChoices == {0 - policy.jitter_pct, 0, policy.jitter_pct}

\* actual_backoff = backoff_ms * (1 + jitter); exact for backoffs that are multiples of 100
ActualBackoffMs(retry, jitterPct) == (BackoffMs(retry) * (100 + jitterPct)) \div 100

\* seconds the clock is seen to advance over time.sleep(ms / 1000)
SleepAdvance(ms) == TickS * (ms \div (1000 * TickS))

-----------------------------------------------------------------------------
(* execute_with_fallback *)

NoResult == [kind |-> "none"]

FbIdle ==
    [pc |-> "idle", candidates |-> <<>>, i |-> 0, retry |-> 0,
     log |-> <<>>, result |-> NoResult]

NoCalls == [n \in Names |-> 0]

\* execution_log entries
SkippedEntry(c) ==
    [tool |-> c.name, skipped |-> TRUE, success |-> FALSE,
     reason |-> "circuit_breaker_open", retry_attempt |-> NoTime, score |-> c.score]
NotExecutableEntry(c) ==
    [tool |-> c.name, skipped |-> FALSE, success |-> FALSE,
     reason |-> "tool_not_executable", retry_attempt |-> NoTime, score |-> c.score]
SuccessEntry(c, retry) ==
    [tool |-> c.name, skipped |-> FALSE, success |-> TRUE,
     reason |-> "", retry_attempt |-> retry, score |-> c.score]
ErrorEntry(c, retry) ==
    [tool |-> c.name, skipped |-> FALSE, success |-> FALSE,
     reason |-> "error", retry_attempt |-> retry, score |-> c.score]

SelectSeq2(s, Test(_)) == SelectSeq(s, Test)

\* _no_tools_result
NoToolsResult ==
    [kind |-> "result", executed |-> FALSE, reason |-> "No suitable tools found",
     tool_used |-> "", tool_score |-> 0, attempt_number |-> 0,
     failed_tools |-> <<>>, skipped_tools |-> <<>>, execution_log |-> <<>>]

\* _all_tools_failed_result
AllToolsFailedResult(log) ==
    LET NotSkipped(e) == ~e.skipped
        Skipped(e) == e.skipped
        names(s) == [k \in 1..Len(s) |-> s[k].tool]
    IN  [kind |-> "result", executed |-> FALSE,
         reason |-> "All available tools failed or were skipped",
         tool_used |-> "", tool_score |-> 0, attempt_number |-> 0,
         failed_tools |-> names(SelectSeq(log, NotSkipped)),
         skipped_tools |-> names(SelectSeq(log, Skipped)),
         execution_log |-> log]

\* the dict returned on success
SuccessResult(c, i, log) ==
    [kind |-> "result", executed |-> TRUE, reason |-> "",
     tool_used |-> c.name, tool_score |-> c.score, attempt_number |-> i,
     failed_tools |-> <<>>, skipped_tools |-> <<>>, execution_log |-> log]

\* not tool or not hasattr(tool, "execute")
Executable(n) == n \in Tools

\* except Exception as e: what tool.execute raised is handled in the retry loop
FBCatches_M(outcome) == FALSE
FBCatches(outcome) == outcome = "raise"

\* the for loop over candidates moves to the next one, or falls out of the loop
FBAdvance(f, log) ==
    IF f.i < Len(f.candidates)
    THEN [f EXCEPT !.pc = "check", !.i = f.i + 1, !.retry = 0, !.log = log]
    ELSE [f EXCEPT !.pc = "done", !.log = log, !.result = AllToolsFailedResult(log)]

\* the caller invokes execute_with_fallback(candidates, tools, inputs, context),
\* candidates being one of lists, while fewer than limit requests were issued
FBStartUpTo(lists, limit) ==
    /\ api = "fallback"
    /\ fb.pc = "idle"
    /\ requests < limit
    /\ requests' = requests + 1
    /\ \E cands \in lists :
        fb' = IF cands = <<>>
              THEN [FbIdle EXCEPT !.pc = "done", !.result = NoToolsResult]
              ELSE [FbIdle EXCEPT !.pc = "check", !.candidates = cands, !.i = 1]
    /\ fbCalls' = NoCalls
    /\ slept' = <<>>
    /\ UNCHANGED <<outsideExec, now, api, policy, health, engVars>>

FBStartWith(lists) == FBStartUpTo(lists, MaxRequests)

FBStart == FBStartWith(CandidateLists)

\* one iteration of the candidate loop up to the retry loop: the circuit check,
\* the tool lookup
FBCheck ==
    /\ api = "fallback"
    /\ fb.pc = "check"
    /\ LET c == fb.candidates[fb.i]
           h1 == AfterCircuitCheck(health, c.name, now)
       IN  IF IsCircuitOpen(health, c.name, now)
           THEN /\ fb' = FBAdvance(fb, Append(fb.log, SkippedEntry(c)))
                /\ health' = h1
           ELSE IF ~Executable(c.name)
           THEN /\ fb' = FBAdvance(fb, Append(fb.log, NotExecutableEntry(c)))
                /\ health' = RecordFailure(h1, c.name, now)
           ELSE /\ fb' = [fb EXCEPT !.pc = "attempt", !.retry = 0]
                /\ health' = h1
    /\ UNCHANGED <<outsideExec, now, api, policy, fbCalls, slept, requests, engVars>>

\* one iteration of the retry loop: the backoff sleep (retry > 0), tool.execute,
\* and what follows its outcome. The jitter drawn changes nothing but the length
\* of the sleep; it is drawn from jitters, and the sleep is recorded in slept
\* when observe is set
AttemptStep(jitters, observe) ==
    /\ api = "fallback"
    /\ fb.pc = "attempt"
    /\ \E outcome \in Outcomes, jitterPct \in jitters :
        LET c == fb.candidates[fb.i]
            delay == IF fb.retry > 0 THEN ActualBackoffMs(fb.retry, jitterPct) ELSE 0
            clock == now + SleepAdvance(delay)
        IN  /\ fb.retry = 0 => jitterPct = 0
            /\ now' = clock
            /\ slept' = IF observe /\ fb.retry > 0
                        THEN Append(slept, <<fb.retry, delay>>)
                        ELSE slept
            /\ fbCalls' = [fbCalls EXCEPT ![c.name] = @ + 1]
            /\ IF outcome = "ok"
               THEN LET log == Append(fb.log, SuccessEntry(c, fb.retry))
                    IN  /\ health' = RecordSuccess(health, c.name, clock)
                        /\ fb' = [fb EXCEPT !.pc = "done", !.log = log,
                                            !.result = SuccessResult(c, fb.i, log)]
               ELSE IF ~FBCatches(outcome)
               THEN /\ fb' = [fb EXCEPT !.pc = "raised"]
                    /\ health' = health
               ELSE LET log == Append(fb.log, ErrorEntry(c, fb.retry))
                    IN  IF fb.retry = policy.max_retries
                        THEN /\ health' = RecordFailure(health, c.name, clock)
                             /\ fb' = FBAdvance(fb, log)
                        ELSE /\ health' = health
                             /\ fb' = [fb EXCEPT !.retry = fb.retry + 1, !.log = log]
    /\ UNCHANGED <<outsideExec, api, policy, requests, engVars>>

FBAttempt == AttemptStep({0}, FALSE)

\* the caller takes the returned dict
FBReturn ==
    /\ api = "fallback"
    /\ fb.pc = "done"
    /\ fb' = FbIdle
    /\ fbCalls' = NoCalls
    /\ slept' = <<>>
    /\ UNCHANGED <<outsideExec, now, api, policy, health, requests, engVars>>

-----------------------------------------------------------------------------
(* The policy object handed to execute_with_policy (core/fallback_policy.py, *)
(* not part of the sources at hand): modelled from the design of the         *)
(* Fallback Policy / Circuit Breaker.                                        *)

PolNew ==
    [state |-> HEALTHY, failure_count |-> 0, success_count |-> 0,
     consecutive_failures |-> 0, circuit_open_until |-> NoTime]

\* an open circuit whose recovery time has come is Degraded (half-open)
PolSettle(hr, clock) ==
    IF hr.state = CIRCUIT_OPEN /\ clock >= hr.circuit_open_until
    THEN [hr EXCEPT !.state = DEGRADED, !.circuit_open_until = NoTime]
    ELSE hr

\* should_try_tool: false while the circuit is open and now < circuitOpenUntil
PolShouldTry(ph, t, clock) ==
    ~(ph[t].state = CIRCUIT_OPEN /\ clock < ph[t].circuit_open_until)

\* record_success
PolRecordSuccess(ph, t, clock) ==
    LET h0 == PolSettle(ph[t], clock)
        h1 == [h0 EXCEPT !.success_count = @ + 1, !.consecutive_failures = 0]
    IN  [ph EXCEPT ![t] =
            IF h1.state = DEGRADED /\ h1.success_count % 3 = 0
            THEN [h1 EXCEPT !.state = HEALTHY]
            ELSE h1]

\* record_failure
PolRecordFailure(ph, t, clock) ==
    LET h0 == PolSettle(ph[t], clock)
        h1 == [h0 EXCEPT !.failure_count = @ + 1, !.consecutive_failures = @ + 1]
    IN  [ph EXCEPT ![t] =
            IF h1.consecutive_failures >= policy.circuit_failure_threshold
            THEN [h1 EXCEPT !.state = CIRCUIT_OPEN,
                            !.circuit_open_until = clock + policy.circuit_recovery_time_s]
            ELSE h1]

\* should_retry(tool_name, attempt, error): <<retry?, delay in ms>>
PolShouldRetry(ph, t, attempt, clock) ==
    <<PolShouldTry(ph, t, clock) /\ attempt <= policy.max_retries,
      Min2(policy.base_backoff_ms * Pow2(attempt - 1), policy.max_backoff_ms)>>

-----------------------------------------------------------------------------
(* execute_with_policy / try_tool_with_retries *)

\* while attempt < 3
EngMaxAttempts == 3

\* strategy.get("fallback") is None
NoFallback == "none"

\* strategy: the primary and the optional fallback the selection produced
StrategySet ==
    {[primary |-> "a", fallback |-> NoFallback],
     [primary |-> "a", fallback |-> "b"],
     [primary |-> "m", fallback |-> "a"]}

EngIdle ==
    [pc |-> "idle", strategy |-> [primary |-> "", fallback |-> NoFallback],
     stage |-> "primary", attempt |-> 0, result |-> NoResult]

\* the dict returned when list_tools_func is None
EngNoToolsResult ==
    [kind |-> "result", executed |-> FALSE, reason |-> "No tools available",
     tool_used |-> "", tool_score |-> 0, attempts |-> 0,
     fallback_used |-> FALSE, primary_failed |-> ""]

\* the dict returned when every tool failed
EngAllFailedResult ==
    [kind |-> "result", executed |-> FALSE, reason |-> "All available tools failed",
     tool_used |-> "", tool_score |-> 0, attempts |-> 0,
     fallback_used |-> FALSE, primary_failed |-> ""]

\* try_tool_with_retries: the dict returned on success
EngSuccessResult(n, attempt) ==
    [kind |-> "result", executed |-> TRUE, reason |-> "",
     tool_used |-> n, tool_score |-> ScoreOf(n), attempts |-> attempt + 1,
     fallback_used |-> FALSE, primary_failed |-> ""]

\* fallback_result["execution"]["primary_failed"] = primary_name; ["fallback_used"] = True
EngTagFallback_M(r, primary) == r
EngTagFallback(r, primary) ==
    [r EXCEPT !.primary_failed = primary, !.fallback_used = TRUE]

\* the source try_tool_with_retries is running for
EngTool == IF eng.stage = "primary" THEN eng.strategy.primary ELSE eng.strategy.fallback

\* except Exception as e
EngCatches(outcome) == outcome = "raise"

\* execute_with_policy after try_tool_with_retries returned success
EngAfterSuccess(r) ==
    [eng EXCEPT !.pc = "done",
                !.result = IF eng.stage = "primary" THEN r
                           ELSE EngTagFallback(r, eng.strategy.primary)]

\* execute_with_policy after try_tool_with_retries returned failure, the policy's
\* health map being ph: the fallback is tried next, or every tool has failed
EngAfterFailure(ph, clock) ==
    IF eng.stage = "primary" /\ eng.strategy.fallback # NoFallback
    THEN /\ eng' = [eng EXCEPT !.pc = "try", !.stage = "fallback", !.attempt = 0]
         /\ polHealth' = ph
    ELSE /\ eng' = [eng EXCEPT !.pc = "done", !.result = EngAllFailedResult]
         /\ polHealth' = PolRecordFailure(ph, eng.strategy.primary, clock)

\* the caller invokes execute_with_policy(selection_result, strategy, ...)
EngStart ==
    /\ api = "policy"
    /\ eng.pc = "idle"
    /\ requests < MaxRequests
    /\ requests' = requests + 1
    /\ \E strategy \in StrategySet, haveTools \in BOOLEAN :
        eng' = IF haveTools
               THEN [EngIdle EXCEPT !.pc = "try", !.strategy = strategy]
               ELSE [EngIdle EXCEPT !.pc = "done", !.strategy = strategy,
                                    !.result = EngNoToolsResult]
    /\ engTrace' = <<>>
    /\ UNCHANGED <<outsideExec, now, api, policy, polHealth, fbVars>>

\* try_tool_with_retries up to its loop: the tool lookup
EngTry ==
    /\ api = "policy"
    /\ eng.pc = "try"
    /\ IF Executable(EngTool)
       THEN /\ eng' = [eng EXCEPT !.pc = "attempt", !.attempt = 0]
            /\ polHealth' = polHealth
       ELSE EngAfterFailure(polHealth, now)
    /\ UNCHANGED <<outsideExec, now, api, policy, requests, engTrace, fbVars>>

\* one iteration of the attempt loop: tool.execute and what follows its outcome
EngAttempt ==
    /\ api = "policy"
    /\ eng.pc = "attempt"
    /\ \E outcome \in Outcomes :
        /\ engTrace' = Append(engTrace, <<EngTool, outcome>>)
        /\ IF outcome = "ok"
           THEN /\ polHealth' = PolRecordSuccess(polHealth, EngTool, now)
                /\ eng' = EngAfterSuccess(EngSuccessResult(EngTool, eng.attempt))
                /\ now' = now
           ELSE IF ~EngCatches(outcome)
           THEN /\ eng' = [eng EXCEPT !.pc = "raised"]
                /\ UNCHANGED <<outsideExec, polHealth, now>>
           ELSE LET attempt == eng.attempt + 1
                    retry == PolShouldRetry(polHealth, EngTool, attempt, now)
                IN  IF retry[1] /\ attempt < EngMaxAttempts
                    THEN /\ eng' = [eng EXCEPT !.attempt = attempt]
                         /\ now' = now + SleepAdvance(retry[2])
                         /\ polHealth' = polHealth
                    ELSE /\ now' = now
                         /\ EngAfterFailure(PolRecordFailure(polHealth, EngTool, now), now)
    /\ UNCHANGED <<outsideExec, api, policy, requests, fbVars>>

\* the caller takes the returned dict
EngReturn ==
    /\ api = "policy"
    /\ eng.pc = "done"
    /\ eng' = EngIdle
    /\ engTrace' = <<>>
    /\ UNCHANGED <<outsideExec, now, api, policy, requests, polHealth, fbVars>>

\* time passes
Tick ==
    /\ now < MaxTime
    /\ now' = now + TickS
    /\ UNCHANGED <<outsideExec, api, policy, requests, fbVars, engVars>>

-----------------------------------------------------------------------------
(* ResponseCache *)

\* Config.CACHE_TTL_HOURS
CacheTtlHours == 24

\* queries are strings: sequences of characters
CacheQueries == {<<"q">>, <<"Q", " ">>, <<"r">>}

\* the responses cached
Responses == {"v1", "v2"}

\* str.lower, character by character
LowerChar(ch) == CASE ch = "Q" -> "q" [] ch = "R" -> "r" [] OTHER -> ch
Lower(str) == [k \in 1..Len(str) |-> LowerChar(str[k])]

\* str.strip
RECURSIVE Strip(_)
Strip(str) ==
    IF str = <<>> THEN str
    ELSE IF Head(str) = " " THEN Strip(Tail(str))
    ELSE IF str[Len(str)] = " " THEN Strip(SubSeq(str, 1, Len(str) - 1))
    ELSE str

\* _get_cache_key: md5 of the normalised query; the digest is taken to be
\* collision-free and is represented by the text digested
CacheKey(query) == Strip(Lower(query))

CacheKeys == {CacheKey(q) : q \in CacheQueries}

\* datetime.isoformat and datetime.fromisoformat
IsoFormat(t) == <<"iso", t>>
FromIsoFormat(str) == str[2]

\* cache_key not in cache_data
NoEntry == [present |-> FALSE]

\* get returned None
Miss == "None"

NoGet == [query |-> <<>>, result |-> Miss, at |-> NoTime]
NoSet == [response |-> Miss, at |-> NoTime]

\* datetime.now() - cached_time < timedelta(hours=CACHE_TTL_HOURS)
CacheFresh_M(entry, t) == t - FromIsoFormat(entry.timestamp) <= CacheTtlHours
CacheFresh(entry, t) == t - FromIsoFormat(entry.timestamp) < CacheTtlHours

\* now - cached_time >= timedelta(hours=CACHE_TTL_HOURS)
CacheExpired(entry, t) == t - FromIsoFormat(entry.timestamp) >= CacheTtlHours

\* ResponseCache(config) over an empty store
CacheInit(enabled) ==
    /\ cacheNow = 0
    /\ caching \in enabled
    /\ cache_data = [k \in CacheKeys |-> NoEntry]
    /\ cache_file = [k \in CacheKeys |-> NoEntry]
    /\ lastSet = [k \in CacheKeys |-> NoSet]
    /\ lastGet = NoGet

\* ResponseCache.set(query, response)
CacheSet ==
    \E q \in CacheQueries, v \in Responses :
        /\ IF ~caching
           THEN UNCHANGED <<cache_data, cache_file, lastSet>>
           ELSE LET data == [cache_data EXCEPT ![CacheKey(q)] =
                                [present |-> TRUE, response |-> v,
                                 timestamp |-> IsoFormat(cacheNow), query |-> q]]
                IN  /\ cache_data' = data
                    /\ cache_file' = data
                    /\ lastSet' = [lastSet EXCEPT ![Strip(Lower(q))] =
                                       [response |-> v, at |-> cacheNow]]
        /\ lastGet' = NoGet
        /\ UNCHANGED <<outsideCache, cacheNow, caching>>

\* ResponseCache.get(query)
CacheGet ==
    \E q \in CacheQueries :
        LET k == CacheKey(q) IN
        /\ IF ~caching
           THEN /\ lastGet' = [query |-> q, result |-> Miss, at |-> cacheNow]
                /\ UNCHANGED <<cache_data, cache_file>>
           ELSE IF k \in CacheKeys /\ cache_data[k].present
           THEN IF CacheFresh(cache_data[k], cacheNow)
                THEN /\ lastGet' = [query |-> q, result |-> cache_data[k].response,
                                    at |-> cacheNow]
                     /\ UNCHANGED <<cache_data, cache_file>>
                ELSE /\ cache_data' = [cache_data EXCEPT ![k] = NoEntry]
                     /\ cache_file' = cache_data'
                     /\ lastGet' = [query |-> q, result |-> Miss, at |-> cacheNow]
           ELSE /\ lastGet' = [query |-> q, result |-> Miss, at |-> cacheNow]
                /\ UNCHANGED <<cache_data, cache_file>>
        /\ UNCHANGED <<outsideCache, cacheNow, caching, lastSet>>

\* ResponseCache.clear_expired()
CacheClearExpired ==
    LET expired == {k \in CacheKeys :
                        cache_data[k].present /\ CacheExpired(cache_data[k], cacheNow)}
    IN  /\ cache_data' = [k \in CacheKeys |->
                              IF k \in expired THEN NoEntry ELSE cache_data[k]]
        /\ cache_file' = IF expired # {} THEN cache_data' ELSE cache_file
        /\ lastGet' = NoGet
        /\ UNCHANGED <<outsideCache, cacheNow, caching, lastSet>>

\* time passes
CacheTick ==
    /\ cacheNow < MaxCacheTime
    /\ cacheNow' = cacheNow + CacheTickH
    /\ lastGet' = NoGet
    /\ UNCHANGED <<outsideCache, caching, cache_data, cache_file, lastSet>>

-----------------------------------------------------------------------------
(* EvidenceCollector.collect_structured_evidence *)

\* getattr(config, "GLOBAL_RETRIEVAL_BUDGET_SECS", 8.0), in tenths of a second
GlobalBudgetDefaultDs == 80
\* getattr(config, "PER_DOMAIN_SOFT_BUDGET_SECS", 1.5), in tenths of a second
PerDomainBudgetDs == 15

\* config.GUIDELINE_SOURCES.keys(), in the order of the dict
Domains == <<"d1", "d2">>

Modes == {"fast", "thorough"}

\* max_per_source values the caller passes
MaxPerSourceChoices == 0..MaxPerSource

\* GuidelinesConfig.build_queries(topic, domain, mode): the domain-qualified
\* query variants, one in fast mode
BuildQueries(domain, mode) ==
    IF mode = "fast" THEN <<<<domain, "q1">>>>
    ELSE <<<<domain, "q1">>, <<domain, "q2">>>>

\* search_tool.run(q) and what follows it in the try block: text of at least
\* 20 characters, the same with cost_tracker.record_search_query raising after
\* the item was appended, a shorter or empty text, or an exception before the
\* item is appended
SearchOutcomes == {"good", "good_tracker_raise", "short", "raise"}

-----------------------------------------------------------------------------
(* The curated sources and the items built from them *)

\* the topics asked about
Topics == {"a", "b"}

\* the tokens of a text: re.split(r"[^a-z0-9]+", text.lower())
TopicTokens(topic) == {topic}

\* GuidelinesConfig.urls_by_domain(): the curated URLs of each domain, in the
\* order of the configuration
UrlsByDomain ==
    [domain \in {"d1", "d2"} |->
        IF domain = "d1" THEN <<"d1/a", "d1/b/c">> ELSE <<>>]

\* len(path) of a curated URL without its scheme
PathLen(url) == CASE url = "d1/a" -> 4 [] url = "d1/b/c" -> 6

\* the tokens of the path of a curated URL
PathTokens(url) ==
    CASE url = "d1/a" -> {"d1", "a"}
      [] url = "d1/b/c" -> {"d1", "b", "c"}

\* the tokens of config.GUIDELINE_SOURCES[domain], the description of the domain
DescTokens(domain) == IF domain = "d2" THEN {"b"} ELSE {}

\* search_url of a curated item
NoSearchUrl == "None"

\* score = overlap * 1000 + tie_break
CuratedScore(topic, domain, url) ==
    Cardinality(TopicTokens(topic) \cap (PathTokens(url) \cup DescTokens(domain))) * 1000
        + PathLen(url)

\* the item collect_curated_evidence builds for a URL
CuratedItem(topic, domain, url) ==
    [domain |-> domain, url |-> url, search_url |-> NoSearchUrl,
     query_used |-> topic, relevance_score |-> CuratedScore(topic, domain, url)]

\* scored: the items of every URL of every domain, in the order of by_domain
RECURSIVE ScoredFrom(_, _)
ScoredFrom(topic, k) ==
    IF k > Len(Domains) THEN <<>>
    ELSE [j \in 1..Len(UrlsByDomain[Domains[k]]) |->
              CuratedItem(topic, Domains[k], UrlsByDomain[Domains[k]][j])]
         \o ScoredFrom(topic, k + 1)

\* the place of an item in a list sorted high to low, behind the items of an
\* equal score (sorted is stable)
RECURSIVE InsertByScore(_, _)
InsertByScore(item, sorted) ==
    IF sorted = <<>> THEN <<item>>
    ELSE IF Head(sorted).relevance_score >= item.relevance_score
    THEN <<Head(sorted)>> \o InsertByScore(item, Tail(sorted))
    ELSE <<item>> \o sorted

\* sorted(scored, key=score, reverse=True)
RECURSIVE SortByScore(_)
SortByScore(list) ==
    IF list = <<>> THEN <<>>
    ELSE InsertByScore(list[Len(list)], SortByScore(SubSeq(list, 1, Len(list) - 1)))

\* items[: n]
Take(list, n) == SubSeq(list, 1, Min2(n, Len(list)))

\* collect_curated_evidence(topic): the ranked items under the result cap, or
\* what the except branch returns when building them raised
CuratedOutcomes == {"ok", "raise"}
CollectCurated(topic, outcome) ==
    IF outcome = "raise" THEN <<>>
    ELSE Take(SortByScore(ScoredFrom(topic, 1)), ResultCap)

\* the tokens of a search query built for a domain and a topic
QueryTokens(topic, q) == {q[1], q[2]} \cup TopicTokens(topic)

\* the better of two curated URLs for a text: a higher overlap wins, an equal
\* overlap goes to the longer URL
RECURSIVE BestUrl(_, _, _)
BestUrl(urls, tokens, best) ==
    IF urls = <<>> THEN best
    ELSE LET u == Head(urls)
             score == Cardinality(tokens \cap PathTokens(u))
             best_score == IF best = NoSearchUrl THEN 0 - 1
                           ELSE Cardinality(tokens \cap PathTokens(best))
         IN  IF \/ score > best_score
                \/ (score = best_score /\ best # NoSearchUrl /\ PathLen(u) > PathLen(best))
             THEN BestUrl(Tail(urls), tokens, u)
             ELSE BestUrl(Tail(urls), tokens, best)

\* _select_curated_url(domain, topic, q) or f"https://{domain}"
SelectCuratedUrl(domain, topic, q) ==
    IF domain \notin DOMAIN UrlsByDomain \/ UrlsByDomain[domain] = <<>>
    THEN domain
    ELSE BestUrl(UrlsByDomain[domain], QueryTokens(topic, q), NoSearchUrl)

-----------------------------------------------------------------------------
(* collect_structured_evidence, step by step *)

\* the items of a list
ItemsOf(list) == {list[k] : k \in 1..Len(list)}

ColIdle ==
    [pc |-> "idle", topic |-> "", mode |-> "fast", max_per_source |-> 0,
     evidence |-> <<>>, sources_covered |-> <<>>,
     start_time |-> 0, global_deadline |-> 0,
     domain |-> 0, queries |-> <<>>, q |-> 0,
     items_for_domain |-> <<>>, domain_deadline |-> 0]

\* EvidenceCollector(config, search_tool, cost_tracker), the global budget
\* being one of budgets
ColInit(budgets) ==
    /\ colNow = 0
    /\ colBudget \in budgets
    /\ col = ColIdle
    /\ colQueried = <<>>
    /\ colAccepted = <<>>

\* the item built from a search result
EvidenceItem(domain, topic, q) ==
    [domain |-> domain, url |-> SelectCuratedUrl(domain, topic, q),
     search_url |-> <<"search", q>>, query_used |-> q]

\* time.time() > global_deadline
PastDeadline(t, deadline) == t > deadline

\* after the query loop of a domain: its items join the evidence, the result
\* cap may end the collection, else the next domain is taken
DomainEnd(c) ==
    LET evidence == IF c.items_for_domain # <<>>
                    THEN c.evidence \o c.items_for_domain ELSE c.evidence
        covered == IF c.items_for_domain # <<>>
                   THEN Append(c.sources_covered, Domains[c.domain])
                   ELSE c.sources_covered
    IN  IF Len(evidence) >= ResultCap
        THEN [c EXCEPT !.pc = "done", !.evidence = evidence, !.sources_covered = covered]
        ELSE [c EXCEPT !.pc = "domain", !.evidence = evidence,
                       !.sources_covered = covered, !.domain = c.domain + 1]

\* break out of the query loop
BreakQueries_M(c) == [c EXCEPT !.pc = "done"]
BreakQueries(c) == DomainEnd(c)

\* collect_structured_evidence(topic, mode, max_per_source) is entered
ColBegin(topics, modes, limits) ==
    /\ col.pc = "idle"
    /\ \E topic \in topics, mode \in modes, mps \in limits :
        col' = [ColIdle EXCEPT !.pc = "domain", !.topic = topic,
                               !.mode = mode, !.max_per_source = mps,
                               !.start_time = colNow,
                               !.global_deadline = colNow + colBudget,
                               !.domain = 1]
    /\ colQueried' = <<>>
    /\ colAccepted' = <<>>

\* the caller invokes collect_structured_evidence(topic, mode, max_per_source)
ColStart ==
    /\ ColBegin(Topics, Modes, MaxPerSourceChoices)
    /\ UNCHANGED <<outsideCol, colNow, colBudget>>

\* the head of the domain loop: the deadline check, the queries and the soft
\* deadline of the domain
ColDomain ==
    /\ col.pc = "domain"
    /\ col' = IF col.domain > Len(Domains) \/ PastDeadline(colNow, col.global_deadline)
              THEN [col EXCEPT !.pc = "done"]
              ELSE [col EXCEPT !.pc = "query",
                               !.queries = BuildQueries(Domains[col.domain], col.mode),
                               !.q = 1,
                               !.items_for_domain = <<>>,
                               !.domain_deadline = colNow + PerDomainBudgetDs]
    /\ UNCHANGED <<outsideCol, colNow, colBudget, colQueried, colAccepted>>

\* except Exception: continue
OnQueryException_M(c) == [c EXCEPT !.pc = "done"]
OnQueryException(c) == [c EXCEPT !.q = c.q + 1]

\* one iteration of the query loop: the deadline checks, search_tool.run and
\* what follows its outcome
ColQuery ==
    /\ col.pc = "query"
    /\ IF col.q > Len(col.queries)
       THEN /\ col' = DomainEnd(col)
            /\ UNCHANGED <<colQueried, colAccepted>>
       ELSE IF \/ PastDeadline(colNow, col.global_deadline)
               \/ PastDeadline(colNow, col.domain_deadline)
       THEN /\ col' = BreakQueries(col)
            /\ UNCHANGED <<colQueried, colAccepted>>
       ELSE \E outcome \in SearchOutcomes :
            LET query == col.queries[col.q]
                item == EvidenceItem(Domains[col.domain], col.topic, query)
                items == Append(col.items_for_domain, item)
            IN  /\ colQueried' = Append(colQueried, [query |-> query, outcome |-> outcome])
                /\ IF outcome = "good"
                   THEN /\ colAccepted' = Append(colAccepted, item)
                        /\ col' = IF Len(items) >= col.max_per_source
                                  THEN BreakQueries([col EXCEPT !.items_for_domain = items])
                                  ELSE [col EXCEPT !.items_for_domain = items,
                                                   !.q = col.q + 1]
                   ELSE IF outcome = "good_tracker_raise"
                   THEN /\ colAccepted' = Append(colAccepted, item)
                        /\ col' = OnQueryException([col EXCEPT !.items_for_domain = items])
                   ELSE IF outcome = "raise"
                   THEN /\ colAccepted' = colAccepted
                        /\ col' = OnQueryException(col)
                   ELSE /\ colAccepted' = colAccepted
                        /\ col' = [col EXCEPT !.q = col.q + 1]
    /\ UNCHANGED <<outsideCol, colNow, colBudget>>

\* the caller takes the returned (evidence, sources_covered)
ColReturn ==
    /\ col.pc = "done"
    /\ col' = ColIdle
    /\ colQueried' = <<>>
    /\ colAccepted' = <<>>
    /\ UNCHANGED <<outsideCol, colNow, colBudget>>

\* time passes
ColTick ==
    /\ colNow < MaxColTime
    /\ colNow' = colNow + ColTickDs
    /\ UNCHANGED <<outsideCol, colBudget, col, colQueried, colAccepted>>

-----------------------------------------------------------------------------

-----------------------------------------------------------------------------
(* GuidelinesV2Executor.run, and a client that walks the pages of a response *)

\* next_token of a request for the first page, and of a last page
NoToken == "None"

\* the token of an offset into the ordered evidence list, and its reading
EncodeToken(offset) == <<"offset", offset>>
DecodeToken(token) == IF token = NoToken THEN 0 ELSE token[2]

\* the items of a list whose URL no earlier item of the list has
RECURSIVE KeepFrom(_, _, _)
KeepFrom(list, keep, k) ==
    IF k > Len(list) THEN <<>>
    ELSE (IF k \in keep THEN <<list[k]>> ELSE <<>>) \o KeepFrom(list, keep, k + 1)

DedupByUrl(list) ==
    KeepFrom(list, {k \in 1..Len(list) : \A j \in 1..(k - 1) : list[j].url # list[k].url}, 1)

\* the place of a domain in the order of strings
DomainRank(domain) == CHOOSE k \in 1..Len(Domains) : Domains[k] = domain

\* sorted({entry["domain"] for entry in curated if entry["domain"]})
RECURSIVE SortedDomains(_)
SortedDomains(set) ==
    IF set = {} THEN <<>>
    ELSE LET least == CHOOSE d \in set : \A e \in set : DomainRank(d) <= DomainRank(e)
         IN  <<least>> \o SortedDomains(set \ {least})

\* sources_covered with the domains of covered it does not hold yet
MergeCovered_M(sources_covered, covered) == sources_covered \o covered
RECURSIVE MergeCovered(_, _)
MergeCovered(sources_covered, covered) ==
    IF covered = <<>> THEN sources_covered
    ELSE MergeCovered(IF Head(covered) \in ItemsOf(sources_covered)
                      THEN sources_covered
                      ELSE Append(sources_covered, Head(covered)),
                      Tail(covered))

NoV2Result ==
    [total_evidence |-> 0, sources_covered |-> <<>>, evidence |-> <<>>,
     has_more |-> FALSE, next_token |-> NoToken, note |-> "", citations |-> 0]

\* the result of a run without evidence
EmptyV2Result(sources_covered) ==
    [NoV2Result EXCEPT !.sources_covered = sources_covered,
                       !.note = "No evidence found"]

\* formatter.format_v2_response: the page of page_size items at the offset of
\* next_token in the deduplicated evidence list
FormatV2Response(evidence, sources_covered, page_size, next_token) ==
    LET list == DedupByUrl(evidence)
        offset == DecodeToken(next_token)
        upto == Min2(offset + page_size, Len(list))
        more == offset + page_size < Len(list)
    IN  [NoV2Result EXCEPT
            !.total_evidence = Len(list),
            !.sources_covered = sources_covered,
            !.evidence = SubSeq(list, offset + 1, upto),
            !.has_more = more,
            !.next_token = IF more THEN EncodeToken(offset + page_size) ELSE NoToken]

\* citation_handler.add_citation_metadata(result, evidence)
AddCitationMetadata(result, evidence) ==
    [result EXCEPT !.citations = Len(evidence)]

\* cache_key: the parameters of the request that affect its output
V2CacheKey(topic, mode, mps, page_size, next_token) ==
    <<topic, mode, mps, page_size, next_token>>

NoCacheSet == [key |-> <<>>, value |-> NoV2Result]

V2Idle ==
    [pc |-> "idle", topic |-> "", mode |-> "fast", max_per_source |-> 0,
     page_size |-> 0, next_token |-> NoToken,
     curated |-> <<>>, evidence |-> <<>>, sources_covered |-> <<>>,
     searched |-> FALSE, result |-> NoV2Result]

NoWalk ==
    [active |-> FALSE, topic |-> "", mode |-> "fast", max_per_source |-> 0,
     page_size |-> 0, token |-> NoToken, pages |-> <<>>, calls |-> 0,
     first |-> <<>>]

\* GuidelinesV2Executor(collector, formatter, citation_handler, cache,
\* search_tool): the cache and the search tool may be None
V2Init(configs) ==
    /\ v2Cfg \in configs
    /\ v2 = V2Idle
    /\ v2CacheSet = NoCacheSet
    /\ pager = NoWalk

V2Configs == [search_tool : BOOLEAN, cache : BOOLEAN]
V2NoSearch == [search_tool |-> FALSE, cache |-> FALSE]

\* the inputs of the requests made to the executor
V2Modes == {"fast"}
V2MaxPerSource == {1}
PageSizes == 1..MaxPageSize

\* run(...) up to the test of the search tool: the curated pass.  A client in
\* the middle of a walk repeats its parameters with the token it was given.
V2Start ==
    /\ v2.pc = "idle"
    /\ col.pc = "idle"
    /\ \E topic \in Topics, mode \in V2Modes, mps \in V2MaxPerSource,
          page_size \in PageSizes, outcome \in CuratedOutcomes :
        /\ pager.active => /\ topic = pager.topic /\ mode = pager.mode
                           /\ mps = pager.max_per_source /\ page_size = pager.page_size
        /\ LET curated == CollectCurated(topic, outcome)
               token == IF pager.active THEN pager.token ELSE NoToken
           IN  /\ v2' = [V2Idle EXCEPT
                            !.pc = IF v2Cfg.search_tool THEN "search" ELSE "format",
                            !.topic = topic, !.mode = mode, !.max_per_source = mps,
                            !.page_size = page_size, !.next_token = token,
                            !.curated = curated,
                            !.evidence = curated,
                            !.sources_covered =
                                SortedDomains({curated[k].domain : k \in 1..Len(curated)})]
               /\ pager' = IF pager.active THEN pager
                           ELSE [NoWalk EXCEPT !.active = TRUE, !.topic = topic,
                                               !.mode = mode, !.max_per_source = mps,
                                               !.page_size = page_size]
    /\ UNCHANGED <<outsideV2, colVars, v2Cfg, v2CacheSet>>

\* evidence.extend(searched)
ExtendEvidence_M(evidence, searched) == searched \o evidence
ExtendEvidence(evidence, searched) == evidence \o searched

\* run calls collect_structured_evidence(topic, mode, max_per_source)
V2Search ==
    /\ v2.pc = "search"
    /\ ColBegin({v2.topic}, {v2.mode}, {v2.max_per_source})
    /\ v2' = [v2 EXCEPT !.pc = "collecting", !.searched = TRUE]
    /\ UNCHANGED <<outsideV2, colNow, colBudget, v2Cfg, v2CacheSet, pager>>

\* collect_structured_evidence returns: its evidence is appended and its
\* domains join sources_covered
V2Merge ==
    /\ v2.pc = "collecting"
    /\ col.pc = "done"
    /\ v2' = [v2 EXCEPT !.pc = "format",
                        !.evidence = ExtendEvidence(v2.evidence, col.evidence),
                        !.sources_covered = MergeCovered(v2.sources_covered,
                                                         col.sources_covered)]
    /\ col' = ColIdle
    /\ UNCHANGED <<outsideV2, colNow, colBudget, colQueried, colAccepted,
                   v2Cfg, v2CacheSet, pager>>

\* the rest of run: the result is built, handed to the cache and returned
V2Finish ==
    /\ v2.pc = "format"
    /\ LET result == IF v2.evidence = <<>>
                     THEN EmptyV2Result(v2.sources_covered)
                     ELSE AddCitationMetadata(
                              FormatV2Response(v2.evidence, v2.sources_covered,
                                               v2.page_size, v2.next_token),
                              v2.evidence)
       IN  /\ v2' = [v2 EXCEPT !.pc = "done", !.result = result]
           /\ v2CacheSet' = IF v2Cfg.cache
                            THEN [key |-> V2CacheKey(v2.topic, v2.mode, v2.max_per_source,
                                                     v2.page_size, v2.next_token),
                                  value |-> result]
                            ELSE v2CacheSet
    /\ UNCHANGED <<outsideV2, colVars, v2Cfg, pager>>

\* the client takes the page; it asks for the next one while has_more is set
V2Return ==
    /\ v2.pc = "done"
    /\ pager' = [pager EXCEPT
                    !.pages = pager.pages \o v2.result.evidence,
                    !.token = v2.result.next_token,
                    !.calls = pager.calls + 1,
                    !.first = IF pager.calls = 0 THEN DedupByUrl(v2.evidence)
                              ELSE pager.first,
                    !.active = v2.result.has_more]
    /\ v2' = V2Idle
    /\ colQueried' = <<>>
    /\ colAccepted' = <<>>
    /\ UNCHANGED <<outsideV2, colNow, colBudget, col, v2Cfg, v2CacheSet>>

-----------------------------------------------------------------------------
(* Evidence ids: hash((domain, q, url)) & 0xfffffff in an interpreter process *)

\* the interpreter processes that run collections
Procs == {1, 2}

\* the seeds hash() of str is keyed with; PYTHONHASHSEED=0 is no randomization
HashSeeds == 0..MaxHashSeed

\* 0xfffffff + 1
IdMask == 268435456

\* the strings hashed, and a number for each
HashedStrings == <<"d1", "d2", "q1", "q2", "d1/a", "d1/b/c">>
StrCode(str) == CHOOSE k \in 1..Len(HashedStrings) : HashedStrings[k] = str

\* hash(str) in a process of the seed: a keyed hash of the characters
StrHash(seed, str) == (StrCode(str) * 131 + seed * (7 * StrCode(str) + 1)) % 9973

\* hash of a query string, made of a domain and a variant
QueryHash(seed, q) == (StrHash(seed, q[1]) * 31 + StrHash(seed, q[2])) % 9973

\* hash of a tuple, from the hashes of its elements
TupleHash(hashes) ==
    IF Len(hashes) = 2 THEN (hashes[1] * 33 + hashes[2]) % 9973
    ELSE ((hashes[1] * 33 + hashes[2]) * 33 + hashes[3]) % 9973

\* f"ev_{hash((domain, q, url)) & 0xfffffff:x}"
EvidenceId(seed, domain, q, url) ==
    <<"ev", TupleHash(<<StrHash(seed, domain), QueryHash(seed, q), StrHash(seed, url)>>)
                % IdMask>>

\* f"cv_{hash((domain, u)) & 0xfffffff:x}"
CuratedId(seed, domain, url) ==
    <<"cv", TupleHash(<<StrHash(seed, domain), StrHash(seed, url)>>) % IdMask>>

NoId == [key |-> <<>>, id |-> <<>>]

\* the processes start, each with a seed of seeds
IdsInit(seeds) ==
    /\ procSeed \in [Procs -> seeds]
    /\ ids = [p \in Procs |-> NoId]

\* a collection run in a process accepts a search result and gives it its id
IdAssign ==
    \E p \in Procs, k \in 1..Len(Domains), topic \in Topics, mode \in Modes :
        \E j \in 1..Len(BuildQueries(Domains[k], mode)) :
            LET domain == Domains[k]
                q == BuildQueries(domain, mode)[j]
                url == SelectCuratedUrl(domain, topic, q)
            IN  /\ ids' = [ids EXCEPT ![p] =
                               [key |-> <<domain, q, url>>,
                                id |-> EvidenceId(procSeed[p], domain, q, url)]]
                /\ UNCHANGED <<outsideIds, procSeed>>

\* a curated pass in a process gives a curated URL its id
CuratedIdAssign ==
    \E p \in Procs, k \in 1..Len(Domains) :
        \E j \in 1..Len(UrlsByDomain[Domains[k]]) :
            LET domain == Domains[k]
                url == UrlsByDomain[domain][j]
            IN  /\ ids' = [ids EXCEPT ![p] =
                               [key |-> <<domain, url>>,
                                id |-> CuratedId(procSeed[p], domain, url)]]
                /\ UNCHANGED <<outsideIds, procSeed>>

\* a process ends and another interpreter is started in its place
ProcRestart ==
    \E p \in Procs, seed \in HashSeeds :
        /\ procSeed' = [procSeed EXCEPT ![p] = seed]
        /\ ids' = [ids EXCEPT ![p] = NoId]
        /\ UNCHANGED outsideIds

-----------------------------------------------------------------------------
(* CitationAggregator *)

\* a citation without a URL
NoUrl == <<>>

\* the citations tools hand to the aggregator: URLs are strings, two of them
\* spellings of one address; complete is the validator's score
CitationSet ==
    {[id |-> "1", url |-> <<"q">>, title |-> "t1", source |-> "arxiv", complete |-> 90],
     [id |-> "2", url |-> <<"Q", "/">>, title |-> "t2", source |-> "openreview", complete |-> 50],
     [id |-> "3", url |-> <<"q">>, title |-> "t2", source |-> "openreview", complete |-> 100],
     [id |-> "4", url |-> <<"r">>, title |-> "t1", source |-> "arxiv", complete |-> 50],
     [id |-> "5", url |-> NoUrl, title |-> "t1", source |-> "arxiv", complete |-> 50],
     [id |-> "6", url |-> NoUrl, title |-> "t1", source |-> "arxiv", complete |-> 90]}

\* the origin tags of the callers
Origins == {"o1", "o2"}

\* the lists add_citations is given
CitationLists ==
    {<<c>> : c \in CitationSet} \cup {<<c, d>> : c \in CitationSet, d \in CitationSet}

\* a URL without its trailing slashes
RECURSIVE StripSlash(_)
StripSlash(url) ==
    IF url # <<>> /\ url[Len(url)] = "/" THEN StripSlash(SubSeq(url, 1, Len(url) - 1))
    ELSE url

\* the normalized URL
NormUrl_M(url) == url
NormUrl(url) == StripSlash(Lower(url))

\* the key a citation is deduplicated under: its normalized URL, or its
\* title and source when it has no URL
DedupKey(c) ==
    IF c.url # NoUrl THEN <<"url", NormUrl(c.url)>> ELSE <<"title", c.title, c.source>>

\* the citation stamped with the origin it was added from
Stamp(c, origin) ==
    [id |-> c.id, url |-> c.url, title |-> c.title, source |-> c.source,
     complete |-> c.complete, aggregated_from |-> origin]

\* the place of the held citation of a key, 0 when none is held
HeldAt(list, key) ==
    IF \E k \in 1..Len(list) : DedupKey(list[k]) = key
    THEN CHOOSE k \in 1..Len(list) : DedupKey(list[k]) = key
    ELSE 0

\* add_citations, item by item: a citation of a new key is admitted and
\* returned; a duplicate is not, and takes the place of the held one only if
\* it is more complete
RECURSIVE AddAll(_, _, _, _)
AddAll(list, items, origin, admitted) ==
    IF items = <<>> THEN [held |-> list, returned |-> admitted]
    ELSE LET c == Stamp(Head(items), origin)
             at == HeldAt(list, DedupKey(c))
         IN  IF at = 0
             THEN AddAll(Append(list, c), Tail(items), origin, Append(admitted, c))
             ELSE IF c.complete > list[at].complete
             THEN AddAll([list EXCEPT ![at] = c], Tail(items), origin, admitted)
             ELSE AddAll(list, Tail(items), origin, admitted)

NoAdd == [items |-> <<>>, returned |-> <<>>]

\* CitationAggregator()
AggInit ==
    /\ held = <<>>
    /\ aggReturned = NoAdd

\* add_citations(items, origin)
AggAdd ==
    \E items \in CitationLists, origin \in Origins :
        LET after == AddAll(held, items, origin, <<>>)
        IN  /\ held' = after.held
            /\ aggReturned' = [items |-> items, returned |-> after.returned]
            /\ UNCHANGED outsideAgg

\* the aggregator is emptied for the next request
AggReset ==
    /\ held # <<>>
    /\ held' = <<>>
    /\ aggReturned' = NoAdd
    /\ UNCHANGED outsideAgg

-----------------------------------------------------------------------------
(* GuidelinesTool.execute (tools/guidelines/tool.py) over its cache *)

\* config.MAX_SEARCH_QUERIES
MaxSearchQueries == 3

\* inputs["query"] and inputs["topic"], stripped: strings are sequences of
\* characters; the empty topic is the request without one
ToolQueries == {<<"m">>}
ToolTopics == {<<>>, <<"a">>}

\* the other inputs of a request: page size, pagination token, mode and
\* per-source limit (execute reads none of them, the token stays the text the
\* client sent); each choice differs from the first in one of them
BaseParams ==
    [page_size |-> 1, next_token |-> NoToken, mode |-> "fast", max_per_source |-> 1]
ToolParams ==
    {BaseParams,
     [BaseParams EXCEPT !.page_size = 2],
     [BaseParams EXCEPT !.next_token = "offset:1"],
     [BaseParams EXCEPT !.mode = "thorough"],
     [BaseParams EXCEPT !.max_per_source = 2]}

ToolRequests ==
    {[query |-> q, topic |-> t, params |-> p] :
        q \in ToolQueries, t \in ToolTopics, p \in ToolParams}

\* cache_key = f"{query}:{topic}"
ToolCacheKey(query, topic) == query \o <<":">> \o topic

ToolKeys == {ToolCacheKey(q, t) : q \in ToolQueries, t \in ToolTopics \ {<<>>}}

\* a key of the result dict that is not set
NoNote == "<absent>"

\* topics that hold a keyword of _get_prioritized_queries, a word standing for
\* the characters that spell it
ProblemKeywords == {"problem", "choose", "select", "pick"}
TasteKeywords == {"taste", "judgment", "quality", "good"}
MethodKeywords == {"method", "process", "approach", "how"}
QueryTopics == {<<"a">>, <<"pick">>, <<"a", "good">>, <<"how">>, <<"how", "taste">>}

\* any(keyword in topic_lower for keyword in [...])
HasKeyword(topic, keywords) == \E i \in 1..Len(topic) : topic[i] \in keywords

\* GuidelinesConfig.get_search_queries(topic): one query per curated source,
\* a query written as the source it searches
GetSearchQueries(topic) ==
    <<"gwern.net", "lesswrong.com", "colah.github.io", "01.me", "arxiv.org",
      "lifescied.org", "cuhk.edu.hk", "michaelnielsen.org", "letters.lossfunk.com",
      "alignmentforum.org", "neelnanda.io", "joschu.net">>

\* GuidelinesTool._get_prioritized_queries(topic)
PrioritizedQueries(topic) ==
    IF HasKeyword(topic, ProblemKeywords)
    THEN <<"lesswrong.com", "gwern.net", "letters.lossfunk.com",
           "alignmentforum.org", "michaelnielsen.org">>
    ELSE IF HasKeyword(topic, TasteKeywords)
    THEN <<"colah.github.io", "01.me", "cuhk.edu.hk", "letters.lossfunk.com",
           "thoughtforms.life">>
    ELSE IF HasKeyword(topic, MethodKeywords)
    THEN <<"michaelnielsen.org", "gwern.net", "letters.lossfunk.com",
           "alignmentforum.org", "neelnanda.io">>
    ELSE Take(GetSearchQueries(topic), 6)

\* the prioritized queries, all of them run
SearchQueries_M(topic) == PrioritizedQueries(topic)

\* search_queries = self._get_prioritized_queries(topic)[:MAX_SEARCH_QUERIES];
\* the loop runs search_tool.run on each of them, a raising one included
SearchQueries(topic) == Take(PrioritizedQueries(topic), MaxSearchQueries)

\* what the searches of one request may give: none passes the quality check,
\* one does, all do
SearchPatterns == {<<FALSE, FALSE, FALSE>>, <<FALSE, TRUE, FALSE>>, <<TRUE, TRUE, TRUE>>}

\* the search queries whose result passed the quality check, in the order run;
\* ok[i] is whether search_tool.run of the i-th query returned a text of more
\* than 20 characters without raising
Retrieved(ok) == SelectSeq([i \in 1..MaxSearchQueries |-> i], LAMBDA i : ok[i])

\* the result dict built after the searches
ToolResult(retrieved) ==
    [retrieved_guidelines |-> retrieved,
     total_guidelines |-> Len(retrieved),
     note |-> IF retrieved = <<>> THEN "No guidelines retrieved from search"
              ELSE "Retrieved relevant guidelines for agent reasoning",
     cached |-> FALSE,
     cache_note |-> NoNote]

\* the error_result of the outer except
ToolErrorResult ==
    [retrieved_guidelines |-> <<>>, total_guidelines |-> 0,
     note |-> "Error in guidelines search", cached |-> FALSE, cache_note |-> NoNote]

\* the result returned when no topic is given
ToolEmptyTopicResult ==
    [retrieved_guidelines |-> <<>>, total_guidelines |-> 0,
     note |-> "Empty query provided", cached |-> FALSE, cache_note |-> NoNote]

\* the hit branch: cached_result["cached"] = True; cached_result["cache_note"] = ...
MarkCached(result) ==
    [result EXCEPT !.cached = TRUE, !.cache_note = "Result served from cache"]

\* cache.get(cache_key): the stored response itself when the entry is present
\* and within the TTL; an expired entry is deleted
ToolCacheGet(store, key, t) ==
    IF ~caching THEN [hit |-> FALSE, store |-> store]
    ELSE IF store[key].present
    THEN IF CacheFresh(store[key], t)
         THEN [hit |-> TRUE, value |-> store[key].response, store |-> store]
         ELSE [hit |-> FALSE, store |-> [store EXCEPT ![key] = NoEntry]]
    ELSE [hit |-> FALSE, store |-> store]

\* cache.set(cache_key, result)
ToolCacheSet(store, key, result, t) ==
    IF ~caching THEN store
    ELSE [store EXCEPT ![key] = [present |-> TRUE, response |-> result,
                                 timestamp |-> IsoFormat(t), query |-> key]]

NoOrigin == [present |-> FALSE]
NoToolCall == [request |-> [query |-> <<>>, topic |-> <<>>, params |-> BaseParams],
               hit |-> FALSE, searched |-> <<>>, result |-> ToolEmptyTopicResult]

\* GuidelinesTool after initialize(), its search tool set and its cache empty
ToolInit ==
    /\ toolStore = [k \in ToolKeys |-> NoEntry]
    /\ toolOrigin = [k \in ToolKeys |-> NoOrigin]
    /\ toolLast = NoToolCall

\* GuidelinesTool.execute(inputs): ok is the outcome of each search, fails
\* whether building the search queries raises
ToolExecute ==
    \E req \in ToolRequests, ok \in SearchPatterns, fails \in BOOLEAN :
        /\ IF req.topic = <<>>
           THEN /\ toolLast' = [request |-> req, hit |-> FALSE, searched |-> <<>>,
                                result |-> ToolEmptyTopicResult]
                /\ UNCHANGED <<toolStore, toolOrigin>>
           ELSE LET key == ToolCacheKey(req.query, req.topic)
                    got == ToolCacheGet(toolStore, key, cacheNow)
                IN  IF got.hit
                    THEN \* the dict returned by get is the one the entry holds
                         LET result == MarkCached(got.value)
                         IN  /\ toolStore' = [got.store EXCEPT ![key].response = result]
                             /\ toolLast' = [request |-> req, hit |-> TRUE,
                                             searched |-> <<>>, result |-> result]
                             /\ UNCHANGED toolOrigin
                    ELSE IF fails
                    THEN /\ toolStore' = got.store
                         /\ toolLast' = [request |-> req, hit |-> FALSE,
                                         searched |-> <<>>, result |-> ToolErrorResult]
                         /\ UNCHANGED toolOrigin
                    ELSE LET result == ToolResult(Retrieved(ok))
                         IN  /\ toolStore' = ToolCacheSet(got.store, key, result, cacheNow)
                             /\ toolOrigin' = IF caching
                                               THEN [toolOrigin EXCEPT ![key] =
                                                        [present |-> TRUE, request |-> req,
                                                         value |-> result]]
                                               ELSE toolOrigin
                             /\ toolLast' = [request |-> req, hit |-> FALSE,
                                             searched |-> SearchQueries(req.topic),
                                             result |-> result]
        /\ UNCHANGED outsideTool

\* GuidelinesTool.clear_cache()
ToolClearCache ==
    /\ \E k \in ToolKeys : toolStore[k].present
    /\ toolStore' = [k \in ToolKeys |-> NoEntry]
    /\ toolOrigin' = [k \in ToolKeys |-> NoOrigin]
    /\ toolLast' = NoToolCall
    /\ UNCHANGED outsideTool

-----------------------------------------------------------------------------
(* ResearchMentorAgent.get_response (agent/mentor_agent.py) over ResponseCache *)

\* agent_executor.invoke: returns a result or raises
InvokeOutcomes == {"ok", "raise"}

\* _save_cache: the file is written, open raises (the file is left as it
\* was), or json.dump raises after open truncated the file
WriteOutcomes == {"ok", "open_raise", "dump_raise"}

\* response_data of a successful agent call
ResponseData == [response |-> "answer", success |-> TRUE, cached |-> FALSE]

\* error_response of the except branch
ErrorResponse == [response |-> "error", success |-> FALSE, cached |-> FALSE]

EmptyStore == [k \in CacheKeys |-> NoEntry]

\* responses.json after _save_cache, by the outcome of the write
SaveCache(file, data, write) ==
    CASE write = "ok" -> [valid |-> TRUE, data |-> data]
      [] write = "open_raise" -> file
      [] OTHER -> [valid |-> FALSE, data |-> EmptyStore]

\* _load_cache: a file that does not parse gives the empty dict
LoadCache(file) == IF file.valid THEN file.data ELSE EmptyStore

\* ResponseCache.get(query): the response when the entry is within the TTL;
\* an expired entry is deleted and the file saved, and an exception of the
\* save leaves get through the caller
AgentCacheGet(data, file, query, t, write) ==
    LET k == CacheKey(query) IN
    IF ~caching THEN [raised |-> FALSE, hit |-> FALSE, data |-> data, file |-> file]
    ELSE IF data[k].present
    THEN IF CacheFresh(data[k], t)
         THEN [raised |-> FALSE, hit |-> TRUE, value |-> data[k].response,
               data |-> data, file |-> file]
         ELSE LET after == [data EXCEPT ![k] = NoEntry]
              IN  [raised |-> write # "ok", hit |-> FALSE, data |-> after,
                   file |-> SaveCache(file, after, write)]
    ELSE [raised |-> FALSE, hit |-> FALSE, data |-> data, file |-> file]

\* ResponseCache.set(query, response): the entry is put in cache_data, then
\* the file is saved
AgentCacheSet(data, file, query, response, t, write) ==
    IF ~caching THEN [raised |-> FALSE, data |-> data, file |-> file]
    ELSE LET after == [data EXCEPT ![CacheKey(query)] =
                          [present |-> TRUE, response |-> response,
                           timestamp |-> IsoFormat(t), query |-> query]]
         IN  [raised |-> write # "ok", data |-> after,
              file |-> SaveCache(file, after, write)]

NoAgentCall == [query |-> <<>>, invoke |-> "not_called", ended |-> "none",
                value |-> ErrorResponse]

\* ResearchMentorAgent(config) over an empty responses.json
AgentInit ==
    /\ agentCache = EmptyStore
    /\ agentFile = [valid |-> TRUE, data |-> EmptyStore]
    /\ agentLast = NoAgentCall

\* the except branch of get_response catches what the try block raises
OnSetException(response) == ErrorResponse

\* ResearchMentorAgent.get_response(user_query)
AgentGetResponse ==
    \E q \in CacheQueries, inv \in InvokeOutcomes,
       wrGet \in WriteOutcomes, wrSet \in WriteOutcomes :
        /\ LET got == AgentCacheGet(agentCache, agentFile, q, cacheNow, wrGet)
           IN  IF got.raised
               THEN \* cache.get is called before the try block
                    /\ agentCache' = got.data
                    /\ agentFile' = got.file
                    /\ agentLast' = [query |-> q, invoke |-> "not_called",
                                     ended |-> "raised", value |-> ErrorResponse]
               ELSE IF got.hit
               THEN /\ agentCache' = got.data
                    /\ agentFile' = got.file
                    /\ agentLast' = [query |-> q, invoke |-> "not_called",
                                     ended |-> "returned", value |-> got.value]
               ELSE IF inv = "raise"
               THEN /\ agentCache' = got.data
                    /\ agentFile' = got.file
                    /\ agentLast' = [query |-> q, invoke |-> inv, ended |-> "returned",
                                     value |-> ErrorResponse]
               ELSE LET put == AgentCacheSet(got.data, got.file, q, ResponseData,
                                             cacheNow, wrSet)
                    IN  /\ agentCache' = put.data
                        /\ agentFile' = put.file
                        /\ agentLast' = [query |-> q, invoke |-> inv, ended |-> "returned",
                                         value |-> IF put.raised
                                                   THEN OnSetException(ResponseData)
                                                   ELSE ResponseData]
        /\ UNCHANGED outsideAgent

\* the process is started again: ResponseCache loads responses.json
AgentRestart ==
    /\ agentCache' = LoadCache(agentFile)
    /\ agentLast' = NoAgentCall
    /\ UNCHANGED <<outsideAgent, agentFile>>

-----------------------------------------------------------------------------
(* _record_success and _record_failure run by several threads on one record *)

\* the threads recording outcomes
Writers == {1, 2}

\* the outcome a thread records
RecKinds == {"success", "failure"}

WriterIdle == [pc |-> "idle", kind |-> "success", tmp |-> 0]

\* health_tracking already holds the record of the source
RecInit ==
    /\ rec = NewHealth
    /\ writers = [w \in Writers |-> WriterIdle]
    /\ recorded = <<>>

\* a thread enters _record_success or _record_failure
RecBegin ==
    \E w \in Writers, kind \in RecKinds :
        /\ writers[w].pc = "idle"
        /\ Len(recorded) < MaxRecorded
        /\ writers' = [writers EXCEPT ![w] = [pc |-> "load_count", kind |-> kind, tmp |-> 0]]
        /\ recorded' = Append(recorded, kind)
        /\ UNCHANGED <<outsideRec, rec>>

\* the read half of an augmented assignment: success_count += 1,
\* failure_count += 1, consecutive_failures += 1
RecLoad ==
    \E w \in Writers :
        /\ writers[w].pc \in {"load_count", "load_run"}
        /\ writers' = [writers EXCEPT ![w] =
              IF writers[w].pc = "load_run"
              THEN [writers[w] EXCEPT !.pc = "store_run",
                                      !.tmp = rec.consecutive_failures]
              ELSE [writers[w] EXCEPT !.pc = "store_count",
                                      !.tmp = IF writers[w].kind = "success"
                                              THEN rec.success_count
                                              ELSE rec.failure_count]]
        /\ UNCHANGED <<outsideRec, rec, recorded>>

\* the write half of the augmented assignment; on the success path the next
\* statements, consecutive_failures = 0 and last_success_time = time.time(),
\* are plain stores
StoreLoaded(r, wr, clock) ==
    CASE wr.pc = "store_run" ->
            [r EXCEPT !.consecutive_failures = wr.tmp + 1, !.last_failure_time = clock]
      [] wr.kind = "success" ->
            [r EXCEPT !.success_count = wr.tmp + 1, !.consecutive_failures = 0,
                      !.last_success_time = clock]
      [] OTHER -> [r EXCEPT !.failure_count = wr.tmp + 1]

RecStore ==
    \E w \in Writers :
        /\ writers[w].pc \in {"store_count", "store_run"}
        /\ rec' = StoreLoaded(rec, writers[w], now)
        /\ writers' = [writers EXCEPT ![w].pc =
              IF writers[w].pc = "store_count" /\ writers[w].kind = "failure"
              THEN "load_run" ELSE "settle"]
        /\ UNCHANGED <<outsideRec, recorded>>

\* the test that ends the method: the circuit opens at the threshold, a
\* Degraded source recovers on every third success
RecSettle ==
    \E w \in Writers :
        /\ writers[w].pc = "settle"
        /\ rec' = IF writers[w].kind = "failure"
                  THEN IF rec.consecutive_failures >= policy.circuit_failure_threshold
                       THEN [rec EXCEPT !.state = CIRCUIT_OPEN,
                                        !.circuit_open_until =
                                            now + policy.circuit_recovery_time_s]
                       ELSE rec
                  ELSE IF rec.state = DEGRADED /\ rec.success_count % 3 = 0
                       THEN [rec EXCEPT !.state = HEALTHY]
                       ELSE rec
        /\ writers' = [writers EXCEPT ![w] = WriterIdle]
        /\ UNCHANGED <<outsideRec, recorded>>

-----------------------------------------------------------------------------
(* Two ResponseCache objects over one responses.json *)

\* the users of the store, each holding its own ResponseCache
Sharers == {1, 2}

SharerIdle == [pc |-> "idle", data |-> EmptyStore]

\* each user constructed its ResponseCache over the empty store
SharedInit ==
    /\ sharers = [u \in Sharers |-> SharerIdle]
    /\ sharedFile = EmptyStore
    /\ sharedSets = <<>>

\* ResponseCache.set up to the assignment into cache_data
SharedSet ==
    \E u \in Sharers, q \in CacheQueries, v \in Responses :
        /\ sharers[u].pc = "idle"
        /\ Len(sharedSets) < MaxSharedSets
        /\ sharers' = [sharers EXCEPT ![u] =
              [pc |-> "save",
               data |-> [sharers[u].data EXCEPT ![CacheKey(q)] =
                            [present |-> TRUE, response |-> v,
                             timestamp |-> IsoFormat(cacheNow), query |-> q]]]]
        /\ sharedSets' = Append(sharedSets, [key |-> CacheKey(q), value |-> v])
        /\ UNCHANGED <<outsideShared, sharedFile>>

\* _save_cache: the file is replaced by the dump of this user's cache_data
SavedFile(file, data) == data

SharedSave ==
    \E u \in Sharers :
        /\ sharers[u].pc = "save"
        /\ sharedFile' = SavedFile(sharedFile, sharers[u].data)
        /\ sharers' = [sharers EXCEPT ![u].pc = "idle"]
        /\ UNCHANGED <<outsideShared, sharedSets>>

\* a user is constructed again: ResponseCache.__init__ loads the file
SharedReload ==
    \E u \in Sharers :
        /\ sharers[u].pc = "idle"
        /\ sharers[u].data # sharedFile
        /\ sharers' = [sharers EXCEPT ![u].data = sharedFile]
        /\ UNCHANGED <<outsideShared, sharedFile, sharedSets>>

-----------------------------------------------------------------------------
(* What the two retry loops return when every attempt raised *)

\* what tool.execute may raise: the class of the exception, and str(e)
ExceptionTypes == {"TimeoutError", "RuntimeError"}
ExceptionTexts == {"", "timed out"}
Raisable == [type : ExceptionTypes, text : ExceptionTexts]

\* the kind of failure an exception stands for: the time budget exceeded, or the
\* source failing
KindOf(e) == IF e.type = "TimeoutError" THEN "timeout" ELSE "source_error"

\* str(e)
StrOf(e) == e.text

\* except Exception as e: the execution_log entry of one failed attempt
RaisedEntry(c, retry, e) ==
    [tool |-> c.name, score |-> c.score, success |-> FALSE,
     error |-> StrOf(e), retry_attempt |-> retry]

\* _execute_with_retries when every attempt raised, es[k] at attempt k - 1: the
\* dict it returns and the entries it logs
RetriesFailed(c, es) ==
    [success |-> FALSE, error |-> StrOf(es[Len(es)]),
     log |-> [k \in 1..Len(es) |-> RaisedEntry(c, k - 1, es[k])]]

\* try_tool_with_retries when every attempt raised: the dict it returns, reason
\* being f"{tool_name} failed after {attempt} attempts: {last_error}"
EngRetriesFailed(n, es) ==
    [success |-> FALSE, executed |-> FALSE,
     reason |-> [tool_name |-> n, attempt |-> Len(es), last_error |-> StrOf(es[Len(es)])],
     attempts |-> Len(es)]

FailInit == failed = <<>>

\* _execute_with_retries runs tool.execute max_retries + 1 times, every run
\* raising
FailExecute ==
    /\ Len(failed) < MaxFailed
    /\ \E es \in [1..(DefaultPolicy.max_retries + 1) -> Raisable] :
        failed' = Append(failed,
                    [via |-> "fallback", raised |-> es[Len(es)],
                     returned |-> RetriesFailed([name |-> "a", score |-> ScoreOf("a")], es)])
    /\ UNCHANGED outsideFail

\* try_tool_with_retries runs tool.execute until the policy stops the retries
\* or attempt reaches 3, every run raising
FailEngine ==
    /\ Len(failed) < MaxFailed
    /\ \E n \in 1..EngMaxAttempts : \E es \in [1..n -> Raisable] :
        failed' = Append(failed,
                    [via |-> "policy", raised |-> es[Len(es)],
                     returned |-> EngRetriesFailed("a", es)])
    /\ UNCHANGED outsideFail

-----------------------------------------------------------------------------
(* guidelines_tool_fn: runtime/tool_impls.py, the one the tool wrappers and the *)
(* REPL import, and runtime/guidelines_tool.py.                                 *)
(* A text is a sequence of lines; a line is its words and the [G#] it carries.  *)

\* the functions of that name
GuideFns == {"tool_impls", "guidelines_tool"}

\* query, as its lower-case words
GuideQueries == {<<"research", "taste">>, <<"the">>}
\* len(w) > 3
LongWord(w) == w \in {"research", "taste", "writing"}
\* internal_delimiters
NoDelimiters == <<"", "">>
GuideDelimiters == {NoDelimiters, <<"<begin>", "<end>">>}

\* what Orchestrator().execute_task returns, or that the import, auto_discover
\* or the call raised
OrchRaised == [raised |-> TRUE, executed |-> FALSE, has_results |-> FALSE,
               evidence |-> 0, retrieved_guidelines |-> 0]
OrchReturned(executed, has_results, ev, gl) ==
    [raised |-> FALSE, executed |-> executed, has_results |-> has_results,
     evidence |-> ev, retrieved_guidelines |-> gl]
OrchOutcomes ==
    {OrchRaised,
     OrchReturned(FALSE, FALSE, 0, 0),   \* {"executed": False, ...}, "results": None
     OrchReturned(TRUE, FALSE, 0, 0),    \* executed, "results" None or {}
     OrchReturned(TRUE, TRUE, 0, 0),     \* results with no item in them
     OrchReturned(TRUE, TRUE, 1, 0),
     OrchReturned(TRUE, TRUE, 0, 1)}

\* what GuidelinesLoader().load_guidelines() returns, or that the import or the
\* load raised
OfflineTaste == [title |-> "taste", words |-> {"research", "taste"}]
OfflineWriting == [title |-> "writing", words |-> {"writing"}]
NoLoad == [raised |-> FALSE, guidelines |-> <<>>]
LoadOutcomes ==
    {[raised |-> TRUE, guidelines |-> <<>>]} \cup
    {[raised |-> FALSE, guidelines |-> g] :
        g \in {<<>>, <<OfflineWriting>>, <<OfflineTaste, OfflineWriting>>}}

Line(text) == [text |-> text, cite |-> 0]
CiteLine(i, text) == [text |-> text, cite |-> i]

\* DEFAULT_LEGEND
LegendLine == Line("Sources - A: attachments; P: papers; G: research guidelines; W: web/news")

\* enforce_citation_schema(text, add_legend=True): unchanged without a citation
\* in it, else the ids normalised and the legend appended
EnforceCitationSchema(lines) ==
    IF \A k \in 1..Len(lines) : lines[k].cite = 0
    THEN lines
    ELSE Append(lines, LegendLine)

\* f"{begin}{reasoning}{end}" if begin or end else reasoning
Delimited(delims, lines) ==
    IF delims # NoDelimiters
    THEN <<Line(delims[1])>> \o lines \o <<Line(delims[2])>>
    ELSE lines

\* the lines the minimal block carries
MinimalGuidelines == <<"validate", "hypotheses", "baselines", "isolate", "document">>

\* _fallback_guidelines_block(note) of runtime/guidelines_tool.py
FallbackGuidelinesBlock(query, delims, load, note) ==
    LET Relevant(g) == \E k \in 1..Len(query) : LongWord(query[k]) /\ query[k] \in g.words
        matching == SelectSeq(load.guidelines, Relevant)
        filtered == IF matching = <<>> THEN Take(load.guidelines, 5) ELSE matching
        noteLines == IF note # "" THEN <<Line(note)>> ELSE <<>>
    IN  IF ~load.raised
        THEN Delimited(delims, EnforceCitationSchema(
                <<Line("Guidelines fallback (offline cache)")>> \o noteLines
                \o [i \in 1..Len(filtered) |-> CiteLine(i, filtered[i].title)]))
        ELSE Delimited(delims, EnforceCitationSchema(
                <<Line("Guidelines fallback (minimal cache)")>> \o noteLines
                \o [i \in 1..Len(MinimalGuidelines) |-> CiteLine(i, MinimalGuidelines[i])]
                \o <<Line("(offline cache unavailable)")>>))

\* the block both functions build from the items of a live result
LiveBlock(delims, orch) ==
    Delimited(delims,
        [i \in 1..orch.evidence |-> Line("evidence")]
        \o [i \in 1..orch.retrieved_guidelines |-> Line("guideline")])

\* result["execution"]["executed"] and result["results"]
LiveResult(orch) == orch.executed /\ orch.has_results

\* guidelines_tool_fn of runtime/tool_impls.py
ToolImplsGuidelines(query, delims, orch) ==
    IF orch.raised
    THEN <<Line("Error searching guidelines: ")>>
    ELSE IF ~LiveResult(orch)
    THEN <<Line("Guidelines search temporarily unavailable. Please try again later.")>>
    ELSE IF orch.evidence = 0 /\ orch.retrieved_guidelines = 0
    THEN <<Line("No specific guidelines found for this query.")>>
    ELSE LiveBlock(delims, orch)

\* guidelines_tool_fn of runtime/guidelines_tool.py
RuntimeGuidelines(query, delims, orch, load) ==
    IF orch.raised
    THEN FallbackGuidelinesBlock(query, delims, load, "Error searching guidelines: ")
    ELSE IF ~LiveResult(orch)
    THEN FallbackGuidelinesBlock(query, delims, load, "Guidelines search temporarily unavailable.")
    ELSE IF orch.evidence = 0 /\ orch.retrieved_guidelines = 0
    THEN FallbackGuidelinesBlock(query, delims, load, "No specific guidelines found in live search.")
    ELSE LiveBlock(delims, orch)

\* "Guidelines fallback" in output
HasGuidelinesFallback(lines) ==
    \E k \in 1..Len(lines) :
        lines[k].text \in {"Guidelines fallback (offline cache)",
                           "Guidelines fallback (minimal cache)"}

NoGuideCall ==
    [fn |-> "none", query |-> <<>>, delims |-> NoDelimiters, orch |-> OrchRaised,
     load |-> NoLoad, output |-> <<>>]

GuideInit == guideLast = NoGuideCall

\* a caller of runtime/tool_impls.py runs guidelines_tool_fn(query)
GuideToolImpls ==
    /\ \E query \in GuideQueries, delims \in GuideDelimiters, orch \in OrchOutcomes :
        guideLast' = [fn |-> "tool_impls", query |-> query, delims |-> delims,
                      orch |-> orch, load |-> NoLoad,
                      output |-> ToolImplsGuidelines(query, delims, orch)]
    /\ UNCHANGED outsideGuide

\* a caller of runtime/guidelines_tool.py runs guidelines_tool_fn(query)
GuideRuntime ==
    /\ \E query \in GuideQueries, delims \in GuideDelimiters, orch \in OrchOutcomes,
          load \in LoadOutcomes :
        guideLast' = [fn |-> "guidelines_tool", query |-> query, delims |-> delims,
                      orch |-> orch, load |-> load,
                      output |-> RuntimeGuidelines(query, delims, orch, load)]
    /\ UNCHANGED outsideGuide

-----------------------------------------------------------------------------
(* _O3SearchTool.execute (tools/o3_search/tool.py) over arxiv_search and
   _fetch_with_retry (mentor_tools.py) *)

\* DEFAULT_MAX_RETRIES of mentor_tools.py
FetchMaxRetries == 2

\* inputs["query"] stripped, and inputs["limit"] as written by the caller:
\* "x" is a text int() rejects
O3Queries == {"", "gan"}
O3Limits == {"8", "x"}

\* the papers arXiv may return for a query, as arxiv_search builds them
PaperOne == [title |-> "p1", source |-> "unset"]
PaperTwo == [title |-> "p2", source |-> "unset"]
ArxivFound == {<<>>, <<PaperOne>>, <<PaperOne, PaperTwo>>}

\* what parsing a response gives: the entries found, or an exception
ParseOutcomes ==
    {[raised |-> FALSE, entries |-> found] : found \in ArxivFound}
        \cup {[raised |-> TRUE, entries |-> <<>>]}

\* _extract_phrases_and_tokens(query) gives a phrase or a token: the relaxed
\* second request of arxiv_search is made only then
HasSearchTerms(query) == query = "gan"

\* the frame of _fetch_with_retry: the loop variable, the requests sent and
\* the time.sleep(2.0) calls made so far, and what the call returned
NoFetch == [pc |-> "idle", attempt |-> 0, requests |-> 0, sleeps |-> 0,
            returned |-> "nothing"]
FetchCalled == [NoFetch EXCEPT !.pc = "try"]

\* except Exception as exc: last_exc = exc, then time.sleep(2.0) when
\* attempt < DEFAULT_MAX_RETRIES; after the last attempt the loop ends and
\* the function returns None
AttemptFailed(f) ==
    IF f.attempt < FetchMaxRetries
    THEN [f EXCEPT !.requests = @ + 1, !.pc = "sleep"]
    ELSE [f EXCEPT !.requests = @ + 1, !.pc = "done", !.returned = "None"]

\* response.raise_for_status() passed: return response
AttemptSucceeded(f) ==
    [f EXCEPT !.requests = @ + 1, !.pc = "done", !.returned = "response"]

\* the dicts arxiv_search returns
ArxivDict(papers, note) == [papers |-> papers, note |-> note]
ArxivRequestFailed == ArxivDict(<<>>, "arXiv request failed or timed out.")
ArxivParseFailed == ArxivDict(<<>>, "Failed to parse arXiv response.")

\* search_results["arxiv"] when arxiv_search, or int(limit) before it, raised
\* inside _execute_o3_search_with_timeout
ArxivSearchFailed == ArxivDict(<<>>, "arXiv search failed")

\* for paper in arxiv_papers: paper["source"] = "arxiv"
Tagged(papers) == [i \in 1..Len(papers) |-> [papers[i] EXCEPT !.source = "arxiv"]]

\* execute on an empty query
EmptyQueryResult == [results |-> <<>>, note |-> "empty query"]

\* out of _execute_o3_search_with_timeout
O3Out(query, arxiv) ==
    [results |-> Tagged(arxiv.papers),
     query |-> query,
     total_papers |-> Len(arxiv.papers),
     arxiv_count |-> Len(arxiv.papers),
     note |-> "O3-powered literature search completed (OpenReview deprecated)"]

\* the keys _execute_fallback_arxiv_search sets on every dict it returns
FallbackKeys(reason) ==
    ("_fallback_reason" :> reason) @@ ("_fallback_from" :> "o3_search")
        @@ ("_degraded_mode" :> TRUE)

\* the isinstance(arxiv_result, dict) branch: the dict arxiv_search returned,
\* with the fallback keys set and its note overwritten
FallbackResult(arxiv_result, reason) ==
    FallbackKeys(reason) @@ ("note" :> "Fallback to arXiv search (O3 unavailable)")
        @@ arxiv_result

\* the except branch of _execute_fallback_arxiv_search
CompleteFailure(query, reason) ==
    FallbackKeys(reason) @@ ("_fallback_failed" :> TRUE) @@ ("results" :> <<>>)
        @@ ("query" :> query) @@ ("note" :> "Complete failure")

\* o3_search_tool_fn: the items it lists are result.get("results"), at most
\* five of them, and with none it returns the note
O3Items(result) == IF "results" \in DOMAIN result THEN result["results"] ELSE <<>>
O3SearchToolFn(result) ==
    IF O3Items(result) = <<>>
    THEN [listed |-> <<>>, text |-> result["note"]]
    ELSE [listed |-> Take(O3Items(result), 5), text |-> "Top literature results:"]

\* no execute call under way
O3Idle ==
    [pc |-> "idle", query |-> "", limit |-> "8", alarm |-> "off", phase |-> "first",
     reason |-> "none", arxiv |-> ArxivDict(<<>>, "None"), result |-> <<>>]

\* execute returns result
O3Returns(o, result) == [o EXCEPT !.pc = "done", !.alarm = "off", !.result = result]

\* _execute_fallback_arxiv_search(query, inputs, context, reason) up to its
\* call of arxiv_search: int(inputs.get("limit", 10)) raises on a bad limit
O3Fallback(o, reason) ==
    IF o.limit = "x"
    THEN [o3 |-> [O3Returns(o, CompleteFailure(o.query, reason)) EXCEPT !.reason = reason],
          fetch |-> NoFetch]
    ELSE [o3 |-> [o EXCEPT !.pc = "fb_search", !.alarm = "off", !.phase = "first",
                           !.reason = reason],
          fetch |-> FetchCalled]

\* arxiv_search has returned the dict: the O3 path goes on to combine the
\* results, the fallback returns the dict with its keys added
ArxivReturned(o, dict) ==
    IF o.pc = "o3_search"
    THEN [o EXCEPT !.pc = "combine", !.arxiv = dict]
    ELSE O3Returns([o EXCEPT !.arxiv = dict], FallbackResult(dict, o.reason))

O3Init ==
    /\ o3 = O3Idle
    /\ fetch = NoFetch

\* execute(inputs) up to the first request of arxiv_search; main_thread is
\* whether the caller runs in the main thread, where signal.signal is allowed
O3Execute ==
    /\ o3.pc = "idle"
    /\ \E query \in O3Queries, limit \in O3Limits, main_thread \in BOOLEAN :
        LET o == [O3Idle EXCEPT !.query = query, !.limit = limit]
        IN  IF query = ""
            THEN /\ o3' = O3Returns(o, EmptyQueryResult)
                 /\ fetch' = NoFetch
            ELSE IF ~main_thread
            THEN \* signal.signal raises ValueError
                 /\ o3' = O3Fallback(o, "O3 error").o3
                 /\ fetch' = O3Fallback(o, "O3 error").fetch
            ELSE IF limit = "x"
            THEN \* int(inputs.get("limit", 10)) raises inside the inner try
                 /\ o3' = [o EXCEPT !.pc = "combine", !.alarm = "armed",
                                  !.arxiv = ArxivSearchFailed]
                 /\ fetch' = NoFetch
            ELSE /\ o3' = [o EXCEPT !.pc = "o3_search", !.alarm = "armed"]
                 /\ fetch' = FetchCalled
    /\ UNCHANGED outsideO3

\* one pass of the loop of _fetch_with_retry up to its return or its sleep:
\* the request succeeds or raises
FetchAttempt ==
    /\ fetch.pc = "try"
    /\ \E ok \in BOOLEAN :
        fetch' = IF ok THEN AttemptSucceeded(fetch) ELSE AttemptFailed(fetch)
    /\ UNCHANGED o3
    /\ UNCHANGED outsideO3

\* time.sleep(2.0) ends and the loop takes its next attempt
FetchSleep ==
    /\ fetch.pc = "sleep"
    /\ fetch' = [fetch EXCEPT !.sleeps = @ + 1, !.attempt = @ + 1, !.pc = "try"]
    /\ UNCHANGED o3
    /\ UNCHANGED outsideO3

\* arxiv_search after _fetch_with_retry returned: None gives the failure
\* dict (on the relaxed request, the empty list found before), a response is
\* parsed, and an empty list on the first request is followed by the relaxed
\* request when the query has terms
ArxivSearchStep ==
    /\ o3.pc \in {"o3_search", "fb_search"}
    /\ fetch.pc = "done"
    /\ IF fetch.returned = "None"
       THEN /\ o3' = ArxivReturned(o3, IF o3.phase = "first" THEN ArxivRequestFailed
                                       ELSE ArxivDict(<<>>, "None"))
            /\ fetch' = NoFetch
       ELSE \E parsed \in ParseOutcomes :
                IF parsed.raised
                THEN /\ o3' = ArxivReturned(o3, ArxivParseFailed)
                     /\ fetch' = NoFetch
                ELSE IF parsed.entries = <<>> /\ o3.phase = "first"
                        /\ HasSearchTerms(o3.query)
                THEN /\ o3' = [o3 EXCEPT !.phase = "relaxed"]
                     /\ fetch' = FetchCalled
                ELSE /\ o3' = ArxivReturned(o3, ArxivDict(parsed.entries, "None"))
                     /\ fetch' = NoFetch
    /\ UNCHANGED outsideO3

\* the alarm of _timeout_context goes off while arxiv_search runs in the O3
\* path: inside the try of _fetch_with_retry the TimeoutError is one more
\* failed attempt; inside time.sleep it leaves _fetch_with_retry and
\* arxiv_search and is caught by the inner try of the O3 path
O3AlarmInSearch ==
    /\ o3.pc = "o3_search"
    /\ o3.alarm = "armed"
    /\ fetch.pc \in {"try", "sleep"}
    /\ IF fetch.pc = "try"
       THEN /\ fetch' = AttemptFailed(fetch)
            /\ o3' = [o3 EXCEPT !.alarm = "fired"]
       ELSE /\ fetch' = [fetch EXCEPT !.pc = "raised"]
            /\ o3' = [o3 EXCEPT !.alarm = "fired", !.pc = "combine",
                                !.arxiv = ArxivSearchFailed]
    /\ UNCHANGED outsideO3

\* the rest of _execute_o3_search_with_timeout, from the combining of the
\* papers to the return: it ends, the alarm goes off in it, or it raises
O3Combine ==
    /\ o3.pc = "combine"
    /\ \E outcome \in {"ok", "timeout", "error"} :
        /\ outcome = "timeout" => o3.alarm = "armed"
        /\ IF outcome = "ok"
           THEN /\ o3' = O3Returns(o3, O3Out(o3.query, o3.arxiv))
                /\ fetch' = NoFetch
           ELSE LET reason == IF outcome = "timeout" THEN "O3 timeout" ELSE "O3 error"
                IN  /\ o3' = O3Fallback(o3, reason).o3
                    /\ fetch' = O3Fallback(o3, reason).fetch
    /\ UNCHANGED outsideO3

\* the caller has the result and the tool is free for the next call
O3Return ==
    /\ o3.pc = "done"
    /\ o3' = O3Idle
    /\ fetch' = NoFetch
    /\ UNCHANGED outsideO3

-----------------------------------------------------------------------------

\* the executor and the engine before their first request, the caller driving
\* one of apis under one of policies
ExecInit(apis, policies) ==
    /\ now = 0
    /\ api \in apis
    /\ policy \in policies
    /\ health = [n \in Names |-> NoHealth]
    /\ fb = FbIdle
    /\ fbCalls = NoCalls
    /\ slept = <<>>
    /\ requests = 0
    /\ polHealth = [n \in Names |-> PolNew]
    /\ eng = EngIdle
    /\ engTrace = <<>>

Init ==
    /\ ExecInit({"fallback", "policy"}, {DefaultPolicy})
    /\ CacheInit({TRUE})
    /\ ColInit({GlobalBudgetDefaultDs})
    /\ V2Init({V2NoSearch})
    /\ IdsInit({0})
    /\ AggInit
    /\ ToolInit
    /\ AgentInit
    /\ RecInit
    /\ SharedInit
    /\ FailInit
    /\ GuideInit
    /\ O3Init

Next ==
    \/ FBStart
    \/ FBCheck
    \/ FBAttempt
    \/ FBReturn
    \/ EngStart
    \/ EngTry
    \/ EngAttempt
    \/ EngReturn
    \/ Tick

Spec == Init /\ [][Next]_vars

-----------------------------------------------------------------------------
(* The retry loop of _execute_with_retries under several policies, the sleeps *)
(* observed                                                                   *)

\* FallbackPolicy(...) configurations: the defaults, and one whose backoff
\* reaches max_backoff_ms
PolicySet ==
    {DefaultPolicy,
     [DefaultPolicy EXCEPT !.max_retries = 4, !.base_backoff_ms = 4000]}

InitBackoff ==
    /\ ExecInit({"fallback"}, PolicySet)
    /\ CacheInit({TRUE})
    /\ ColInit({GlobalBudgetDefaultDs})
    /\ V2Init({V2NoSearch})
    /\ IdsInit({0})
    /\ AggInit
    /\ ToolInit
    /\ AgentInit
    /\ RecInit
    /\ SharedInit
    /\ FailInit
    /\ GuideInit
    /\ O3Init

\* a request for one source
FBStartSingle == FBStartWith({<<[name |-> "a", score |-> ScoreOf("a")]>>})

\* the retry loop with the jitter drawn and the sleep recorded
FBAttemptJitter == AttemptStep(JitterChoices, TRUE)

NextBackoff ==
    \/ FBStartSingle
    \/ FBCheck
    \/ FBAttemptJitter
    \/ FBReturn

SpecBackoff == InitBackoff /\ [][NextBackoff]_vars

-----------------------------------------------------------------------------
(* The response cache alone *)

InitCache ==
    /\ ExecInit({"fallback"}, {DefaultPolicy})
    /\ CacheInit(BOOLEAN)
    /\ ColInit({GlobalBudgetDefaultDs})
    /\ V2Init({V2NoSearch})
    /\ IdsInit({0})
    /\ AggInit
    /\ ToolInit
    /\ AgentInit
    /\ RecInit
    /\ SharedInit
    /\ FailInit
    /\ GuideInit
    /\ O3Init

NextCache ==
    \/ CacheSet
    \/ CacheGet
    \/ CacheClearExpired
    \/ CacheTick

SpecCache == InitCache /\ [][NextCache]_vars

-----------------------------------------------------------------------------
(* The evidence collector alone, under a global budget of 0 or of the default *)

BudgetSet == {0, GlobalBudgetDefaultDs}

InitCollect ==
    /\ ExecInit({"fallback"}, {DefaultPolicy})
    /\ CacheInit({TRUE})
    /\ ColInit(BudgetSet)
    /\ V2Init({V2NoSearch})
    /\ IdsInit({0})
    /\ AggInit
    /\ ToolInit
    /\ AgentInit
    /\ RecInit
    /\ SharedInit
    /\ FailInit
    /\ GuideInit
    /\ O3Init

NextCollect ==
    \/ ColStart
    \/ ColDomain
    \/ ColQuery
    \/ ColReturn
    \/ ColTick

SpecCollect == InitCollect /\ [][NextCollect]_vars

-----------------------------------------------------------------------------
(* The V2 executor over the evidence collector, asked page after page *)

InitV2 ==
    /\ ExecInit({"fallback"}, {DefaultPolicy})
    /\ CacheInit({TRUE})
    /\ ColInit({GlobalBudgetDefaultDs})
    /\ V2Init(V2Configs)
    /\ IdsInit({0})
    /\ AggInit
    /\ ToolInit
    /\ AgentInit
    /\ RecInit
    /\ SharedInit
    /\ FailInit
    /\ GuideInit
    /\ O3Init

NextV2 ==
    \/ V2Start
    \/ V2Search
    \/ ColDomain
    \/ ColQuery
    \/ ColTick
    \/ V2Merge
    \/ V2Finish
    \/ V2Return

SpecV2 == InitV2 /\ [][NextV2]_vars

-----------------------------------------------------------------------------
(* Evidence ids assigned in two interpreter processes *)

InitIds ==
    /\ ExecInit({"fallback"}, {DefaultPolicy})
    /\ CacheInit({TRUE})
    /\ ColInit({GlobalBudgetDefaultDs})
    /\ V2Init({V2NoSearch})
    /\ IdsInit(HashSeeds)
    /\ AggInit
    /\ ToolInit
    /\ AgentInit
    /\ RecInit
    /\ SharedInit
    /\ FailInit
    /\ GuideInit
    /\ O3Init

NextIds ==
    \/ IdAssign
    \/ CuratedIdAssign
    \/ ProcRestart

SpecIds == InitIds /\ [][NextIds]_vars

-----------------------------------------------------------------------------
(* The citation aggregator alone *)

InitAgg ==
    /\ ExecInit({"fallback"}, {DefaultPolicy})
    /\ CacheInit({TRUE})
    /\ ColInit({GlobalBudgetDefaultDs})
    /\ V2Init({V2NoSearch})
    /\ IdsInit({0})
    /\ AggInit
    /\ ToolInit
    /\ AgentInit
    /\ RecInit
    /\ SharedInit
    /\ FailInit
    /\ GuideInit
    /\ O3Init

NextAgg ==
    \/ AggAdd
    \/ AggReset

SpecAgg == InitAgg /\ [][NextAgg]_vars

-----------------------------------------------------------------------------
(* The legacy guidelines tool serving requests through its cache *)

InitTool ==
    /\ ExecInit({"fallback"}, {DefaultPolicy})
    /\ CacheInit({TRUE})
    /\ ColInit({GlobalBudgetDefaultDs})
    /\ V2Init({V2NoSearch})
    /\ IdsInit({0})
    /\ AggInit
    /\ ToolInit
    /\ AgentInit
    /\ RecInit
    /\ SharedInit
    /\ FailInit
    /\ GuideInit
    /\ O3Init

NextTool ==
    \/ ToolExecute
    \/ ToolClearCache
    \/ CacheTick

SpecTool == InitTool /\ [][NextTool]_vars

-----------------------------------------------------------------------------
(* The mentor agent answering queries through its response cache *)

InitAgent ==
    /\ ExecInit({"fallback"}, {DefaultPolicy})
    /\ CacheInit({TRUE, FALSE})
    /\ ColInit({GlobalBudgetDefaultDs})
    /\ V2Init({V2NoSearch})
    /\ IdsInit({0})
    /\ AggInit
    /\ ToolInit
    /\ AgentInit
    /\ RecInit
    /\ SharedInit
    /\ FailInit
    /\ GuideInit
    /\ O3Init

NextAgent ==
    \/ AgentGetResponse
    \/ AgentRestart
    \/ CacheTick

SpecAgent == InitAgent /\ [][NextAgent]_vars

-----------------------------------------------------------------------------
(* The health record of one source over a longer run of requests *)

InitHealth ==
    /\ ExecInit({"fallback"}, {DefaultPolicy})
    /\ CacheInit({TRUE})
    /\ ColInit({GlobalBudgetDefaultDs})
    /\ V2Init({V2NoSearch})
    /\ IdsInit({0})
    /\ AggInit
    /\ ToolInit
    /\ AgentInit
    /\ RecInit
    /\ SharedInit
    /\ FailInit
    /\ GuideInit
    /\ O3Init

\* a request for source "a", alone or with "b" behind it
FBStartHealth ==
    FBStartUpTo({<<[name |-> "a", score |-> ScoreOf("a")]>>,
                 <<[name |-> "a", score |-> ScoreOf("a")],
                   [name |-> "b", score |-> ScoreOf("b")]>>}, MaxHealthRequests)

NextHealth ==
    \/ FBStartHealth
    \/ FBCheck
    \/ FBAttempt
    \/ FBReturn
    \/ Tick

SpecHealth == InitHealth /\ [][NextHealth]_vars

-----------------------------------------------------------------------------
(* Threads recording outcomes of one source at the same time *)

InitRec ==
    /\ ExecInit({"fallback"}, {DefaultPolicy})
    /\ CacheInit({TRUE})
    /\ ColInit({GlobalBudgetDefaultDs})
    /\ V2Init({V2NoSearch})
    /\ IdsInit({0})
    /\ AggInit
    /\ ToolInit
    /\ AgentInit
    /\ RecInit
    /\ SharedInit
    /\ FailInit
    /\ GuideInit
    /\ O3Init

NextRec ==
    \/ RecBegin
    \/ RecLoad
    \/ RecStore
    \/ RecSettle

SpecRec == InitRec /\ [][NextRec]_vars

-----------------------------------------------------------------------------
(* Two users writing the shared response cache *)

InitShared ==
    /\ ExecInit({"fallback"}, {DefaultPolicy})
    /\ CacheInit({TRUE})
    /\ ColInit({GlobalBudgetDefaultDs})
    /\ V2Init({V2NoSearch})
    /\ IdsInit({0})
    /\ AggInit
    /\ ToolInit
    /\ AgentInit
    /\ RecInit
    /\ SharedInit
    /\ FailInit
    /\ GuideInit
    /\ O3Init

NextShared ==
    \/ SharedSet
    \/ SharedSave
    \/ SharedReload

SpecShared == InitShared /\ [][NextShared]_vars

-----------------------------------------------------------------------------
(* Calls in which every attempt raised, and what they return *)

InitFail ==
    /\ ExecInit({"fallback"}, {DefaultPolicy})
    /\ CacheInit({TRUE})
    /\ ColInit({GlobalBudgetDefaultDs})
    /\ V2Init({V2NoSearch})
    /\ IdsInit({0})
    /\ AggInit
    /\ ToolInit
    /\ AgentInit
    /\ RecInit
    /\ SharedInit
    /\ FailInit
    /\ GuideInit
    /\ O3Init

NextFail ==
    \/ FailExecute
    \/ FailEngine

SpecFail == InitFail /\ [][NextFail]_vars

-----------------------------------------------------------------------------
(* Calls of guidelines_tool_fn, whatever the orchestrator does *)

InitGuide ==
    /\ ExecInit({"fallback"}, {DefaultPolicy})
    /\ CacheInit({TRUE})
    /\ ColInit({GlobalBudgetDefaultDs})
    /\ V2Init({V2NoSearch})
    /\ IdsInit({0})
    /\ AggInit
    /\ ToolInit
    /\ AgentInit
    /\ RecInit
    /\ SharedInit
    /\ FailInit
    /\ GuideInit
    /\ O3Init

NextGuide ==
    \/ GuideToolImpls
    \/ GuideRuntime

SpecGuide == InitGuide /\ [][NextGuide]_vars

-----------------------------------------------------------------------------
(* The O3 search tool answering calls, its arXiv requests retried *)

InitO3 ==
    /\ ExecInit({"fallback"}, {DefaultPolicy})
    /\ CacheInit({TRUE})
    /\ ColInit({GlobalBudgetDefaultDs})
    /\ V2Init({V2NoSearch})
    /\ IdsInit({0})
    /\ AggInit
    /\ ToolInit
    /\ AgentInit
    /\ RecInit
    /\ SharedInit
    /\ FailInit
    /\ GuideInit
    /\ O3Init

NextO3 ==
    \/ O3Execute
    \/ FetchAttempt
    \/ FetchSleep
    \/ ArxivSearchStep
    \/ O3AlarmInSearch
    \/ O3Combine
    \/ O3Return

SpecO3 == InitO3 /\ [][NextO3]_vars

-----------------------------------------------------------------------------
(* Properties of FallbackExecutor and execute_with_policy, checked under Spec *)

\* source t has reached the failure threshold and its circuit_open_until has
\* not elapsed at time clock
BlockedAt(h, t, clock) ==
    /\ h[t].tracked
    /\ h[t].consecutive_failures >= policy.circuit_failure_threshold
    /\ Truthy(h[t].circuit_open_until)
    /\ clock <= h[t].circuit_open_until

HasSkipped(log, t) ==
    \E k \in 1..Len(log) : log[k].tool = t /\ log[k].skipped

\* C1: once a source's consecutive_failures has reached
\* circuit_failure_threshold, no step of execute_with_fallback taken before
\* circuit_open_until has elapsed invokes that source's execute: the candidate
\* loop reaching the source skips it instead of entering the retry loop.
C1_NoExecuteWhileCircuitOpen ==
    [][\A t \in Names :
         /\ fbCalls'[t] > fbCalls[t] => ~BlockedAt(health, t, now')
         /\ (/\ fb.pc = "check"
             /\ fb' # fb
             /\ fb.candidates[fb.i].name = t
             /\ BlockedAt(health, t, now))
            => /\ fb'.pc # "attempt"
               /\ HasSkipped(fb'.log, t)
               /\ fbCalls' = fbCalls]_vars

\* C1 witness: a call has skipped a source whose circuit is open and whose
\* recovery time has not elapsed.
C1_Witness ==
    \E t \in Names : HasSkipped(fb.log, t) /\ BlockedAt(health, t, now)

ConsecutiveFailuresOf(h, t) == IF h[t].tracked THEN h[t].consecutive_failures ELSE 0
SuccessCountOf(h, t) == IF h[t].tracked THEN h[t].success_count ELSE 0

\* C2: when the failure just recorded for a source is its third consecutive
\* one, get_tool_health_summary reports state circuit_open for it; and a
\* request that reaches the source with no time elapsed since does not execute
\* it, logs it as skipped with reason circuit_breaker_open and leaves its
\* health record (all counters) unchanged.
C2_ThreeFailuresOpenAndSkip ==
    [][/\ \A t \in Names :
            (/\ ConsecutiveFailuresOf(health', t) > ConsecutiveFailuresOf(health, t)
             /\ ConsecutiveFailuresOf(health', t) = 3)
            => HealthSummary'[t].state = "circuit_open"
       /\ \A t \in Names :
            (/\ fb.pc = "check"
             /\ fb' # fb
             /\ fb.candidates[fb.i].name = t
             /\ ConsecutiveFailuresOf(health, t) = 3
             /\ health[t].last_failure_time = now)
            => /\ fb'.pc # "attempt"
               /\ fbCalls' = fbCalls
               /\ fb'.log = Append(fb.log, SkippedEntry(fb.candidates[fb.i]))
               /\ SkippedEntry(fb.candidates[fb.i]).reason = "circuit_breaker_open"
               /\ health'[t] = health[t]]_vars

\* C2 witness: a source with three consecutive failures, reported circuit_open,
\* has been skipped by the request at the time of its third failure.
C2_Witness ==
    \E t \in Names :
        /\ HasSkipped(fb.log, t)
        /\ health[t].tracked
        /\ health[t].consecutive_failures = 3
        /\ health[t].last_failure_time = now
        /\ HealthSummary[t].state = "circuit_open"

\* C3: every step that records a success for a source leaves that source's
\* consecutive_failures at 0.
C3_SuccessResetsConsecutiveFailures ==
    [][\A t \in Names :
         SuccessCountOf(health', t) > SuccessCountOf(health, t)
         => health'[t].consecutive_failures = 0]_vars

\* C3 witness: a call has succeeded with a source that had failed before, in
\* the Degraded state.
C3_Witness ==
    /\ fb.pc = "done"
    /\ fb.result.executed
    /\ health[fb.result.tool_used].failure_count >= 3
    /\ health[fb.result.tool_used].state = DEGRADED
    /\ health[fb.result.tool_used].consecutive_failures = 0

\* the primary failed and the fallback's execute then returned
FallbackSucceeded ==
    /\ eng.pc = "done"
    /\ eng.stage = "fallback"
    /\ Len(engTrace) > 0
    /\ engTrace[Len(engTrace)] = <<eng.strategy.fallback, "ok">>

\* C4: when the primary has failed and the fallback then succeeds, the result
\* of execute_with_policy has executed = true, tool_used = the fallback,
\* fallback_used = true and primary_failed = the primary's name.
C4_FallbackResultTagged ==
    FallbackSucceeded =>
        /\ eng.result.executed
        /\ eng.result.tool_used = eng.strategy.fallback
        /\ eng.result.fallback_used
        /\ eng.result.primary_failed = eng.strategy.primary

\* C4 witness: the primary raised at least twice and exhausted its attempts,
\* then the fallback succeeded.
C4_Witness ==
    /\ FallbackSucceeded
    /\ Len(engTrace) >= 3
    /\ engTrace[1] = <<eng.strategy.primary, "raise">>
    /\ engTrace[2] = <<eng.strategy.primary, "raise">>

HasSuccess(log) == \E k \in 1..Len(log) : log[k].success
HasOk(trace) == \E k \in 1..Len(trace) : trace[k][2] = "ok"

\* C5: neither execute_with_fallback nor execute_with_policy lets an exception
\* escape, and a call in which no execute succeeded returns a result with
\* executed = false and a non-empty reason.
C5_NeverRaises ==
    /\ fb.pc # "raised"
    /\ eng.pc # "raised"
    /\ (fb.pc = "done" /\ ~HasSuccess(fb.log))
        => (fb.result.kind = "result" /\ ~fb.result.executed /\ fb.result.reason # "")
    /\ (eng.pc = "done" /\ ~HasOk(engTrace))
        => (eng.result.kind = "result" /\ ~eng.result.executed /\ eng.result.reason # "")

\* C5 witness: a call of execute_with_fallback over a missing tool and a tool
\* whose every attempt raised has returned.
C5_Witness ==
    /\ fb.pc = "done"
    /\ ~fb.result.executed
    /\ \E k \in 1..Len(fb.log) : fb.log[k].reason = "tool_not_executable"
    /\ \E k \in 1..Len(fb.log) : fb.log[k].reason = "error"

\* C6: execute_with_policy calls execute only on a source the policy allows to
\* be tried (should_try_tool is true at the time of the call).
C6_NoExecuteWhenPolicyBlocks ==
    [][Len(engTrace') > Len(engTrace)
       => PolShouldTry(polHealth, EngTool, now)]_vars


-----------------------------------------------------------------------------
(* Properties of the backoff, checked under SpecBackoff *)

\* the first attempt is about to run, or has run, without any sleep
NoSleepBeforeFirstAttempt ==
    /\ \A k \in 1..Len(slept) : slept[k][1] >= 1
    /\ (fb.pc = "attempt" /\ fb.retry = 0) => slept = <<>>
    /\ Len(slept) <= fb.retry

\* C7 as stated: the delay before attempt n >= 2 (retry n - 1) lies in
\* [base_backoff_ms * 2^(n-2) * (1 - jitter_factor), max_backoff_ms], the
\* delays never decrease from one retry to the next, and nothing is slept
\* before the first attempt.
C7_Original ==
    /\ NoSleepBeforeFirstAttempt
    /\ \A k \in 1..Len(slept) :
        /\ slept[k][2] * 100 >=
              policy.base_backoff_ms * Pow2(slept[k][1] - 1) * (100 - policy.jitter_pct)
        /\ slept[k][2] <= policy.max_backoff_ms
        /\ k > 1 => slept[k][2] >= slept[k - 1][2]

\* min(base_backoff_ms * 2^(n-2), max_backoff_ms) for retry = n - 1
CappedBackoff(retry) ==
    IF policy.base_backoff_ms * Pow2(retry - 1) < policy.max_backoff_ms
    THEN policy.base_backoff_ms * Pow2(retry - 1)
    ELSE policy.max_backoff_ms

\* C7 amended: the delay before attempt n >= 2 lies in
\* [b * (1 - jitter_factor), b * (1 + jitter_factor)] for
\* b = min(base_backoff_ms * 2^(n-2), max_backoff_ms), so it never exceeds
\* max_backoff_ms * (1 + jitter_factor); the delays do not decrease from one
\* retry to the next while the later backoff is not capped and jitter_factor
\* is at most 1/3; nothing is slept before the first attempt.
C7_BackoffWithinJitterOfCappedExponential ==
    /\ NoSleepBeforeFirstAttempt
    /\ \A k \in 1..Len(slept) :
        /\ slept[k][2] * 100 >= CappedBackoff(slept[k][1]) * (100 - policy.jitter_pct)
        /\ slept[k][2] * 100 <= CappedBackoff(slept[k][1]) * (100 + policy.jitter_pct)
        /\ slept[k][2] * 100 <= policy.max_backoff_ms * (100 + policy.jitter_pct)
        /\ (/\ k > 1
            /\ 3 * policy.jitter_pct <= 100
            /\ policy.base_backoff_ms * Pow2(slept[k][1] - 1) <= policy.max_backoff_ms)
           => slept[k][2] >= slept[k - 1][2]

\* C7 witness: a capped backoff has been slept with the largest jitter, and it
\* exceeds max_backoff_ms.
C7_Witness ==
    /\ Len(slept) >= 3
    /\ policy.base_backoff_ms * Pow2(slept[3][1] - 1) > policy.max_backoff_ms
    /\ slept[3][2] > policy.max_backoff_ms

-----------------------------------------------------------------------------
(* Properties of ResponseCache, checked under SpecCache *)

\* the latest set of the key of the query the last get asked for
LastSetOfGet == lastSet[Strip(Lower(lastGet.query))]

\* C8: with caching enabled, a get of a query returns the response of the
\* latest set of that query's key while less than the TTL has elapsed since
\* that set, and returns a miss once the TTL has elapsed (and when the key was
\* never set).
C8_SetGetRoundTripWithinTtl ==
    (caching /\ lastGet # NoGet) =>
        IF LastSetOfGet # NoSet /\ lastGet.at - LastSetOfGet.at < CacheTtlHours
        THEN lastGet.result = LastSetOfGet.response
        ELSE lastGet.result = Miss

\* a get, some hours after the set and under another spelling of the query,
\* has returned the response set
C8_Witness ==
    /\ caching
    /\ lastGet # NoGet
    /\ lastGet.result \in Responses
    /\ lastGet.at > LastSetOfGet.at
    /\ cache_data[CacheKey(lastGet.query)].query # lastGet.query

-----------------------------------------------------------------------------
(* Properties of collect_structured_evidence, checked under SpecCollect *)

\* C9: a collection run under a global budget of 0 seconds returns an empty
\* evidence list and an empty sources_covered list.
C9_ZeroBudgetReturnsEmpty ==
    (colBudget = 0 /\ col.pc = "done") =>
        /\ col.evidence = <<>>
        /\ col.sources_covered = <<>>

\* C10: a search query is issued only by an iteration whose deadline check
\* read a clock not past the global deadline, and when the collection returns,
\* every item accepted is in the returned evidence list.
C10_NoQueryPastDeadlineKeepsAccepted ==
    [][/\ Len(colQueried') > Len(colQueried) => ~(colNow > col.global_deadline)
       /\ col'.pc = "done" => ItemsOf(colAccepted') \subseteq ItemsOf(col'.evidence)]_vars

\* the global deadline passed while a source with an accepted item still had
\* a query to issue, and the collection has returned
C10_Witness ==
    /\ col.pc = "done"
    /\ colBudget > 0
    /\ colNow > col.global_deadline
    /\ col.items_for_domain # <<>>
    /\ Len(col.items_for_domain) < col.max_per_source
    /\ col.q <= Len(col.queries)
    /\ Len(col.evidence) < ResultCap
    /\ Len(colQueried) = Len(colAccepted)

\* the search outcomes that are exceptions caught by the query loop
Raising == {"raise", "good_tracker_raise"}

\* the queries of the call whose outcome is in outcomes
QueriedWith(outcomes) ==
    {k \in 1..Len(colQueried) : colQueried[k].outcome \in outcomes}

\* C11: a search query that raises leaves the collection running: the loop
\* goes on to the next query of the same source with nothing lost; a
\* collection in which a query raised returns only after the source loop has
\* taken every source, unless the global deadline has passed or the result
\* cap is reached; the item of every successful query is in the returned evidence.
C11_QueryExceptionDoesNotAbort ==
    [][/\ (/\ Len(colQueried') > Len(colQueried)
           /\ colQueried'[Len(colQueried')].outcome \in Raising)
          => /\ col'.pc = "query"
             /\ col'.domain = col.domain
             /\ col'.q = col.q + 1
             /\ col'.evidence = col.evidence
             /\ ItemsOf(col.items_for_domain) \subseteq ItemsOf(col'.items_for_domain)
       /\ (col'.pc = "done" /\ QueriedWith(Raising)' # {})
          => /\ \/ col'.domain > Len(Domains)
                \/ colNow' > col'.global_deadline
                \/ Len(col'.evidence) >= ResultCap
             /\ \A k \in QueriedWith({"good", "good_tracker_raise"})' :
                    EvidenceItem(colQueried'[k].query[1], col'.topic, colQueried'[k].query)
                        \in ItemsOf(col'.evidence)]_vars

\* the first query of the first source raised and a later source's query
\* succeeded; the collection has returned that source's item
C11_Witness ==
    /\ col.pc = "done"
    /\ Len(colQueried) >= 2
    /\ colQueried[1].outcome = "raise"
    /\ \E k \in 2..Len(colQueried) :
          /\ colQueried[k].outcome = "good"
          /\ colQueried[k].query[1] # colQueried[1].query[1]
          /\ EvidenceItem(colQueried[k].query[1], col.topic, colQueried[k].query) \in ItemsOf(col.evidence)

\* C12: the evidence list a collection returns holds at most RESULT_CAP items.
C12_EvidenceWithinResultCap ==
    col.pc = "done" => Len(col.evidence) <= ResultCap

\* the number of items of the list that are of the domain
CountOfDomain(list, domain) ==
    Cardinality({k \in 1..Len(list) : list[k].domain = domain})

\* C13: the evidence list a collection returns holds, for every domain, at
\* most max_per_source items of that domain.
C13_AtMostMaxPerSourcePerDomain ==
    col.pc = "done" =>
        \A k \in 1..Len(Domains) :
            CountOfDomain(col.evidence, Domains[k]) <= col.max_per_source

-----------------------------------------------------------------------------
(* Properties of GuidelinesV2Executor.run, checked under SpecV2 *)

\* the items that follow the first n items of a list
Drop(list, n) == SubSeq(list, n + 1, Len(list))

\* C14: a search query is issued only after the curated pass has put its
\* items at the head of the evidence list, and the evidence list a run formats
\* is the curated items followed by search-derived items only, whether or not
\* a search tool is configured and whatever the search queries do.
C14_CuratedFirst ==
    [][/\ Len(colQueried') > Len(colQueried)
          => /\ v2.pc = "collecting"
             /\ v2.evidence = v2.curated
       /\ v2'.pc \in {"format", "done"}
          => /\ Take(v2'.evidence, Len(v2'.curated)) = v2'.curated
             /\ \A k \in 1..Len(v2'.curated) : v2'.curated[k].search_url = NoSearchUrl
             /\ \A item \in ItemsOf(Drop(v2'.evidence, Len(v2'.curated))) :
                    item.search_url # NoSearchUrl
             /\ ~v2Cfg.search_tool => v2'.evidence = v2'.curated]_vars

\* every search query of the run raised and the response still carries the
\* curated items
C14_Witness ==
    /\ v2.pc = "done"
    /\ v2.searched
    /\ Len(colQueried) = Len(Domains)
    /\ \A k \in 1..Len(colQueried) : colQueried[k].outcome = "raise"
    /\ v2.curated # <<>>
    /\ v2.evidence = v2.curated
    /\ v2.result.evidence # <<>>

-----------------------------------------------------------------------------
(* Properties of the evidence ids, checked under SpecIds *)

\* C15: two processes that assigned an id for the same (domain, query, url)
\* assigned the same id.
C15_SameKeySameEvidenceId ==
    \A p1, p2 \in Procs :
        (ids[p1] # NoId /\ ids[p1].key = ids[p2].key) => ids[p1].id = ids[p2].id

\* C16: when a client that started without a token has followed next_token,
\* its other parameters unchanged, until has_more was false, the pages it was
\* given, put end to end, are the deduplicated evidence list of its first
\* request: every item once, none missing.
C16_PagesReproduceEvidenceList ==
    (~pager.active /\ pager.calls >= 1) => pager.pages = pager.first

-----------------------------------------------------------------------------
(* Properties of the citation aggregator, checked under SpecAgg *)

\* the citations of a list that have the address of the URL
WithAddress(list, url) ==
    {k \in 1..Len(list) : list[k].url # NoUrl /\ StripSlash(Lower(list[k].url)) = url}

\* the addresses of the citations of a list
AddressesOf(list) ==
    {StripSlash(Lower(list[k].url)) : k \in {j \in 1..Len(list) : list[j].url # NoUrl}}

\* C17: add_citations returns no citation whose URL was held before the call,
\* and returns at most one citation per URL; the aggregator never holds more
\* than one citation of a URL.
C17_DuplicateUrlAdmitsNothing ==
    [][/\ \A url \in AddressesOf(held) : WithAddress(aggReturned'.returned, url) = {}
       /\ \A url \in AddressesOf(held') :
            /\ Cardinality(WithAddress(held', url)) = 1
            /\ Cardinality(WithAddress(aggReturned'.returned, url)) <= 1]_vars

\* a citation was added under a second spelling of a URL held from another
\* origin: nothing was returned and one citation of the URL is held
C17_Witness ==
    /\ Len(aggReturned.items) = 1
    /\ aggReturned.returned = <<>>
    /\ aggReturned.items[1].url # NoUrl
    /\ \E k \in 1..Len(held) :
          /\ held[k].url # aggReturned.items[1].url
          /\ NormUrl(held[k].url) = NormUrl(aggReturned.items[1].url)
          /\ Cardinality(WithAddress(held, NormUrl(held[k].url))) = 1

\* C18: two requests that differ in page size, pagination token, mode or
\* per-source limit never share a cache key, so a request served from the cache
\* gets the response of a request with the same parameters as its own
C18_HitOnlyForSameParameters ==
    toolLast.hit =>
        LET key == ToolCacheKey(toolLast.request.query, toolLast.request.topic)
        IN  /\ toolOrigin[key].present
            /\ toolOrigin[key].request.params = toolLast.request.params

\* C19: a failure while reading, parsing or writing the cache store never leaves
\* get_response as an exception, and a request whose agent call succeeded is
\* answered with a successful response
C19_CacheFailureIsAMiss ==
    /\ agentLast.ended # "raised"
    /\ agentLast.invoke = "ok" => agentLast.value.success

\* C20: serving a hit leaves the stored entry as it was: while an entry is
\* within the TTL, the value a get returns for its key is the value that was
\* stored when the entry was made
C20_HitLeavesEntryUnchanged ==
    \A k \in ToolKeys :
        (toolStore[k].present /\ CacheFresh(toolStore[k], cacheNow)) =>
            /\ toolOrigin[k].present
            /\ ToolCacheGet(toolStore, k, cacheNow).value = toolOrigin[k].value

\* C21: the cache holds an entry only for a request that produced a successful
\* result: a request whose searches all failed, or that ended on the error
\* path, stores nothing
C21_OnlySuccessfulResultsCached ==
    \A k \in ToolKeys :
        toolStore[k].present => toolStore[k].response.total_guidelines > 0

\* C22: the circuit check of any source, made in any state and at any time,
\* leaves every health record as it was
C22_CircuitCheckChangesNothing ==
    \A n \in Names : AfterCircuitCheck(health, n, now) = health

\* C23: in every state of the health map a source in state CIRCUIT_OPEN has
\* circuit_open_until set, and a source in any other state is not blocked by the
\* circuit check, whatever circuit_open_until holds
C23_OpenCircuitHasDeadline ==
    \A n \in Names :
        health[n].tracked =>
            /\ health[n].state = CIRCUIT_OPEN => health[n].circuit_open_until # NoTime
            /\ health[n].state # CIRCUIT_OPEN => ~IsCircuitOpen(health, n, now)

\* a source whose circuit was opened by its failures has been moved to Degraded
\* by the check, its deadline cleared
C23_Witness ==
    \E n \in Names :
        /\ health[n].tracked /\ health[n].state = DEGRADED
        /\ health[n].consecutive_failures >= policy.circuit_failure_threshold
        /\ health[n].circuit_open_until = NoTime

\* the check made now moves every open source whose recovery time has elapsed
\* (now >= circuit_open_until) to Degraded
ElapsedCheckDegrades ==
    \A n \in Names :
        (/\ health[n].tracked
         /\ health[n].state = CIRCUIT_OPEN
         /\ health[n].circuit_open_until # NoTime
         /\ now >= health[n].circuit_open_until)
            => AfterCircuitCheck(health, n, now)[n].state = DEGRADED

\* a call to a Degraded source starts only as the first call since an outcome
\* of that source was recorded
OneTrialCall ==
    \A n \in Names :
        (/\ fbCalls'[n] = fbCalls[n] + 1
         /\ health[n].tracked
         /\ health[n].state = DEGRADED) => fb.retry = 0

\* C24: once the recovery time of an open circuit has elapsed the next check
\* moves the source to Degraded, and one trial call is made before its outcome
\* is recorded: no second call starts while the trial is outstanding
OneTrialCallAlways == [][OneTrialCall]_vars

C24_HalfOpenAllowsOneTrial ==
    []ElapsedCheckDegrades /\ OneTrialCallAlways

\* the step records a success of source n
SuccessRecorded(n) ==
    /\ health'[n].tracked
    /\ health'[n].success_count = SetDefault(health, n).success_count + 1

\* C25: a source moves to Healthy exactly when a success recorded while it is
\* Degraded makes its cumulative success_count a multiple of 3; nothing else
\* moves a source to Healthy and a success in any other state keeps the state
C25_HealthyOnThirdSuccess ==
    [][\A n \in Names :
        LET before == SetDefault(health, n) IN
        /\ (health'[n].tracked /\ before.state # HEALTHY
                /\ health'[n].state = HEALTHY)
              => /\ before.state = DEGRADED
                 /\ SuccessRecorded(n)
                 /\ health'[n].success_count % 3 = 0
        /\ (SuccessRecorded(n) /\ before.state = DEGRADED
                /\ health'[n].success_count % 3 = 0)
              => health'[n].state = HEALTHY
        /\ (SuccessRecorded(n)
                /\ ~(before.state = DEGRADED /\ health'[n].success_count % 3 = 0))
              => health'[n].state = before.state]_vars

\* a source that was opened and moved to Degraded has returned to Healthy on its
\* third success
C25_Witness ==
    /\ health["a"].tracked
    /\ health["a"].state = HEALTHY
    /\ health["a"].failure_count >= policy.circuit_failure_threshold
    /\ health["a"].success_count = 3
    /\ health["a"].last_success_time > health["a"].last_failure_time

\* every thread has left _record_success / _record_failure
AllRecorded == \A w \in Writers : writers[w].pc = "idle"

\* the last k outcomes recorded were all failures
LastAllFailures(k) ==
    /\ Len(recorded) >= k
    /\ \A i \in (Len(recorded) - k + 1)..Len(recorded) : recorded[i] = "failure"

\* C26: when threads record outcomes of one source at the same time no update
\* is lost: once they are done failure_count + success_count is the number of
\* outcomes recorded, and the circuit is open if the last
\* circuit_failure_threshold outcomes were all failures
C26_NoLostUpdate ==
    AllRecorded =>
        /\ rec.failure_count + rec.success_count = Len(recorded)
        /\ LastAllFailures(policy.circuit_failure_threshold) => rec.state = CIRCUIT_OPEN

\* no user of the shared store is inside set
SharersIdle == \A u \in Sharers : sharers[u].pc = "idle"

\* the values set under key k
ValuesSet(k) == {sharedSets[i].value : i \in {j \in 1..Len(sharedSets) : sharedSets[j].key = k}}

\* C27: after concurrent sets by two users of one store every key that was set
\* is retrievable by a user that opens the store, and holds one of the values
\* written under it
C27_SharedStoreKeepsEveryKey ==
    SharersIdle =>
        \A k \in CacheKeys :
            ValuesSet(k) # {} =>
                /\ LoadCache([valid |-> TRUE, data |-> sharedFile])[k].present
                /\ LoadCache([valid |-> TRUE, data |-> sharedFile])[k].response
                       \in ValuesSet(k)

-----------------------------------------------------------------------------
(* Properties of the failures returned by the retry loops, checked under SpecFail *)

\* C28: a call that failed on a timeout and a call that failed on a source
\* error return dicts that tell the two kinds apart: two failed calls through the
\* same entry point whose last exceptions are of different kinds never return the
\* same dict
C28_TimeoutToldFromSourceError ==
    \A i, j \in 1..Len(failed) :
        (/\ failed[i].via = failed[j].via
         /\ KindOf(failed[i].raised) # KindOf(failed[j].raised))
        => failed[i].returned # failed[j].returned

-----------------------------------------------------------------------------
(* Properties of guidelines_tool_fn, checked under SpecGuide *)

\* the orchestrator reported executed=false, or could not run
OrchestratorUnavailable(orch) == orch.raised \/ ~orch.executed

\* C29: when the orchestrator reports executed=false or cannot run,
\* guidelines_tool_fn returns the offline fallback block, a text containing
\* 'Guidelines fallback'
C29_FallbackBlockWhenUnavailable ==
    (guideLast.fn # "none" /\ OrchestratorUnavailable(guideLast.orch))
        => HasGuidelinesFallback(guideLast.output)

\* the same, of the function in runtime/guidelines_tool.py alone
RuntimeFallbackWhenUnavailable ==
    (guideLast.fn = "guidelines_tool" /\ OrchestratorUnavailable(guideLast.orch))
        => HasGuidelinesFallback(guideLast.output)

-----------------------------------------------------------------------------
(* Properties of the executed=false result, checked under Spec *)

\* how many times name n stands in the list s
Occurrences(s, n) == Cardinality({k \in 1..Len(s) : s[k] = n})

\* the candidates of the request are pairwise distinct
DistinctCandidates ==
    \A j, k \in 1..Len(fb.candidates) :
        fb.candidates[j].name = fb.candidates[k].name => j = k

\* C31: in the executed=false result of execute_with_fallback over distinct
\* candidates, every candidate stands exactly once in exactly one of
\* failed_tools and skipped_tools
C31_EachCandidateListedOnce ==
    (/\ api = "fallback"
     /\ fb.pc = "done"
     /\ fb.candidates # <<>>
     /\ ~fb.result.executed
     /\ DistinctCandidates)
    => \A k \in 1..Len(fb.candidates) :
          Occurrences(fb.result.failed_tools, fb.candidates[k].name)
          + Occurrences(fb.result.skipped_tools, fb.candidates[k].name) = 1

\* the state of source n in health map h, a source without a record being
\* Healthy (the default of ToolHealth)
StateOf(h, n) == IF h[n].tracked THEN h[n].state ELSE HEALTHY

\* the moves of a health state along Healthy -> Degraded -> CircuitOpen ->
\* Degraded -> Healthy
AllowedMove(from, to) ==
    \/ from = to
    \/ from = HEALTHY /\ to = DEGRADED
    \/ from = DEGRADED /\ to \in {CIRCUIT_OPEN, HEALTHY}
    \/ from = CIRCUIT_OPEN /\ to = DEGRADED

HealthMovesAllowed ==
    \A n \in Names : AllowedMove(StateOf(health, n), StateOf(health', n))

\* C32: a source's health state changes only along Healthy -> Degraded ->
\* CircuitOpen -> Degraded -> Healthy: no step takes a Healthy source to
\* CircuitOpen or a CircuitOpen source to Healthy
C32_HealthStatesInOrder == [][HealthMovesAllowed]_vars

\* the half of it that concerns leaving CircuitOpen
OpenLeavesToDegraded ==
    \A n \in Names :
        StateOf(health, n) = CIRCUIT_OPEN => StateOf(health', n) \in {CIRCUIT_OPEN, DEGRADED}
OpenLeavesToDegradedAlways == [][OpenLeavesToDegraded]_vars

-----------------------------------------------------------------------------
(* Properties of the attempts made within one request, checked under Spec *)

\* execute() invocations of source n recorded in the engine's trace
EngInvocations(n) == Cardinality({k \in 1..Len(engTrace) : engTrace[k][1] = n})

\* at most 3 invocations of a source within one request, the candidates of
\* execute_with_fallback being distinct and the primary differing from the fallback
AtMostThreeInvocations ==
    /\ (api = "fallback" /\ DistinctCandidates) => \A n \in Names : fbCalls[n] <= 3
    /\ (api = "policy" /\ eng.strategy.primary # eng.strategy.fallback)
        => \A n \in Names : EngInvocations(n) <= 3

\* the attempts reported by execute_with_policy on success are the invocations
\* made of the source used
EngAttemptsAreInvocations ==
    (api = "policy" /\ eng.pc = "done" /\ eng.result.executed)
        => eng.result.attempts = EngInvocations(eng.result.tool_used)

\* the attempt number reported by execute_with_fallback on success is the
\* number of invocations made of the source used
FBAttemptsAreInvocations ==
    (api = "fallback" /\ fb.pc = "done" /\ fb.candidates # <<>>
     /\ fb.result.executed /\ DistinctCandidates)
        => fb.result.attempt_number = fbCalls[fb.result.tool_used]

\* C33: within one request a source's execute is invoked at most 3 times, and
\* the attempts value reported in the result equals the number of invocations
\* made
C33_AttemptsBoundedAndReported ==
    /\ AtMostThreeInvocations
    /\ EngAttemptsAreInvocations
    /\ FBAttemptsAreInvocations

-----------------------------------------------------------------------------
(* Properties of the failures execute_with_policy records, checked under Spec *)

\* in the request at hand the primary was executed and every attempt raised
PrimaryExhausted ==
    /\ \E k \in 1..Len(engTrace) : engTrace[k] = <<eng.strategy.primary, "raise">>
    /\ \A k \in 1..Len(engTrace) : engTrace[k] # <<eng.strategy.primary, "ok">>

\* C34: a request to execute_with_policy in which the primary exhausts its
\* attempts records exactly one failure for the primary, with or without a
\* fallback and whether or not the fallback succeeds (stated of the first
\* request, whose counts start from 0)
C34_OneFailureForPrimary ==
    (/\ api = "policy"
     /\ requests = 1
     /\ eng.pc = "done"
     /\ PrimaryExhausted)
    => /\ polHealth[eng.strategy.primary].failure_count = 1
       /\ polHealth[eng.strategy.primary].consecutive_failures = 1

\* the same when the fallback succeeded
OneFailureWhenFallbackSucceeds ==
    (/\ api = "policy"
     /\ requests = 1
     /\ eng.pc = "done"
     /\ PrimaryExhausted
     /\ eng.result.executed)
    => /\ polHealth[eng.strategy.primary].failure_count = 1
       /\ polHealth[eng.strategy.primary].consecutive_failures = 1

-----------------------------------------------------------------------------
(* Properties of the order of candidates in execute_with_fallback, checked *)
(* under Spec                                                            *)

\* candidate j of the request was skipped, or found not executable, or raised on
\* its last attempt
CandidateDone(j) ==
    \E k \in 1..Len(fb.log) :
        /\ fb.log[k].tool = fb.candidates[j].name
        /\ \/ fb.log[k].skipped
           \/ fb.log[k].reason = "tool_not_executable"
           \/ (~fb.log[k].success /\ fb.log[k].retry_attempt = policy.max_retries)

\* while a candidate is being executed, every earlier one is done with
EarlierCandidatesDone ==
    (api = "fallback" /\ fb.pc = "attempt") => \A j \in 1..(fb.i - 1) : CandidateDone(j)

\* a success is the last entry of the log: nothing is executed after it
SuccessEndsLog ==
    api = "fallback" =>
        \A k \in 1..Len(fb.log) : fb.log[k].success => k = Len(fb.log)

\* only the candidate at hand is executed
ExecutesCandidateAtHand ==
    \A n \in Names :
        (api = "fallback" /\ fbCalls'[n] > fbCalls[n])
            => (fb.pc = "attempt" /\ n = fb.candidates[fb.i].name)

\* the counts of the successful source at the end of the first request
OneSuccessNoFailure ==
    /\ health[fb.result.tool_used].tracked
    /\ health[fb.result.tool_used].success_count = 1
    /\ health[fb.result.tool_used].failure_count = 0

\* the first request ended in a success
FirstRequestSucceeded ==
    /\ api = "fallback"
    /\ requests = 1
    /\ fb.pc = "done"
    /\ fb.candidates # <<>>
    /\ fb.result.executed

-----------------------------------------------------------------------------
(* Properties of the circuit after its recovery time, checked under SpecHealth *)

\* source n is Degraded and has had no success since its circuit opened: a
\* success resets consecutive_failures, and only the check of an elapsed circuit
\* leaves a source Degraded with the threshold reached
DegradedSinceOpening(n) ==
    /\ health[n].tracked
    /\ health[n].state = DEGRADED
    /\ health[n].consecutive_failures >= policy.circuit_failure_threshold

\* a failure recorded for such a source opens its circuit again, until
\* circuit_recovery_time_s from the time of the recording
FailureReopens ==
    \A n \in Names :
        (DegradedSinceOpening(n) /\ health'[n].failure_count = health[n].failure_count + 1)
        => /\ health'[n].state = CIRCUIT_OPEN
           /\ health'[n].circuit_open_until = now' + policy.circuit_recovery_time_s

\* C36: after an open circuit's recovery time has elapsed and the source is
\* tried again, a single failed request opens the circuit again with a fresh
\* circuit_open_until
C36_OneFailureReopens == [][FailureReopens]_vars

\* a circuit opened again by the fourth failed request in a row
C36_Witness ==
    \E n \in Names :
        /\ health[n].tracked
        /\ health[n].state = CIRCUIT_OPEN
        /\ health[n].consecutive_failures = policy.circuit_failure_threshold + 1
        /\ health[n].circuit_open_until = now + policy.circuit_recovery_time_s

-----------------------------------------------------------------------------
(* Properties of sources_covered, checked under SpecV2 *)

\* covered names no domain twice, and names exactly the domains of the items of
\* evidence
CoveredMatches(evidence, covered) ==
    /\ \A j, k \in 1..Len(covered) : covered[j] = covered[k] => j = k
    /\ \A d \in ItemsOf(Domains) :
        d \in ItemsOf(covered) <=> \E k \in 1..Len(evidence) : evidence[k].domain = d

\* C37: in the result of a collection, sources_covered holds each domain at most
\* once, and a domain is in it if and only if a returned evidence item has that
\* domain: of what collect_structured_evidence returns, and of the evidence and
\* sources_covered run has collected when it builds its response
C37_CoveredIffEvidence ==
    /\ col.pc = "done" => CoveredMatches(col.evidence, col.sources_covered)
    /\ v2.pc = "format" => CoveredMatches(v2.evidence, v2.sources_covered)

\* a run whose search added items of a domain the curated pass had covered
\* already
C37_Witness ==
    /\ v2.pc = "format"
    /\ v2.searched
    /\ Len(v2.curated) > 0
    /\ Len(v2.evidence) > Len(v2.curated)
    /\ \E k \in 1..Len(v2.curated) :
        v2.evidence[Len(v2.evidence)].domain = v2.curated[k].domain

\* C38: an execute call served from the cache ran no search query, a call that
\* missed the cache ran at most MAX_SEARCH_QUERIES of them, and the queries
\* built for any topic, with or without a keyword, number at most that many
C38_SearchesBounded ==
    /\ toolLast.hit => toolLast.searched = <<>>
    /\ Len(toolLast.searched) <= MaxSearchQueries
    /\ \A topic \in QueryTopics : Len(SearchQueries(topic)) <= MaxSearchQueries

\* a call that missed the cache has run its three queries, none of which
\* passed the quality check
C38_Witness ==
    /\ ~toolLast.hit
    /\ Len(toolLast.searched) = MaxSearchQueries
    /\ toolLast.result.retrieved_guidelines = <<>>
    /\ toolLast.result.note = "No guidelines retrieved from search"

\* a call served from the cache
C38_WitnessHit == toolLast.hit /\ toolLast.searched = <<>>

\* C39: every execute call ends with a dict that has a 'results' key; one
\* that went through the fallback is marked _degraded_mode, and one whose
\* fallback failed too has empty results and is marked _fallback_failed
C39_AlwaysResults ==
    o3.pc = "done" =>
        /\ "results" \in DOMAIN o3.result
        /\ o3.reason # "none" => o3.result["_degraded_mode"] = TRUE
        /\ (o3.reason # "none" /\ o3.limit = "x") =>
               /\ o3.result["results"] = <<>>
               /\ o3.result["_fallback_failed"] = TRUE

\* the parts of C39 that hold: without a fallback, and when the fallback
\* failed too, the dict has its results; every fallback dict is marked
O3ResultsOutsideFallback ==
    (o3.pc = "done" /\ (o3.reason = "none" \/ o3.limit = "x")) =>
        "results" \in DOMAIN o3.result

O3FallbackMarked ==
    (o3.pc = "done" /\ o3.reason # "none") =>
        /\ "_degraded_mode" \in DOMAIN o3.result
        /\ o3.result["_degraded_mode"] = TRUE
        /\ o3.limit = "x" <=> "_fallback_failed" \in DOMAIN o3.result

\* the fallback's arxiv_search returned: its findings are under 'papers', the
\* dict has no 'results', and o3_search_tool_fn lists nothing
O3FallbackUnderPapers ==
    (o3.pc = "done" /\ o3.reason # "none" /\ o3.limit # "x") =>
        /\ "results" \notin DOMAIN o3.result
        /\ o3.result["papers"] = o3.arxiv.papers
        /\ O3SearchToolFn(o3.result).listed = <<>>

\* a fallback that found two papers
O3FallbackFoundPapers ==
    /\ o3.pc = "done"
    /\ o3.reason = "O3 timeout"
    /\ Len(o3.arxiv.papers) = 2

\* C40: _fetch_with_retry sends at most two requests, sleeps between two
\* requests and not after the last, and returns None when all have failed
C40_OneRetry ==
    /\ fetch.requests <= 2
    /\ fetch.pc = "done" => fetch.sleeps = fetch.requests - 1
    /\ (fetch.pc = "done" /\ fetch.returned = "None") => fetch.requests = 2

\* the parts of C40 that hold, with the count the loop has: a call that
\* returned slept once between each two requests and not after the last, and
\* it returned None exactly when its last request, the third, failed
FetchSleepsBetweenAttempts ==
    /\ fetch.requests <= FetchMaxRetries + 1
    /\ fetch.pc = "done" => fetch.sleeps = fetch.requests - 1
    /\ (fetch.pc = "done" /\ fetch.returned = "None") =>
           fetch.requests = FetchMaxRetries + 1

\* the call returned None after its third request
FetchReturnedNone == fetch.pc = "done" /\ fetch.returned = "None"

====
